---------------------------- MODULE Spec2Model ----------------------------
(***************************************************************************)
(* A model of the CDI grading tool: the grading engine                     *)
(* (cdi_health/core/grading_engine.py), the device manager that feeds it   *)
(* (cdi_health/core/device_manager.py), the Devices scanner and the Device *)
(* it builds (cdi_health/classes/devices.py), and the GUI with its Grading *)
(* threads (CDI.py, classes/threads.py).                                   *)
(*                                                                         *)
(* JSON values.  A field of the telemetry is a tagged value: an integer,   *)
(* "absent" (the key is not in the dictionary), "null" (the key holds JSON *)
(* null, Python's None) or "bad" (the key holds a string that is no        *)
(* number, such as "N/A").                                                 *)
(***************************************************************************)
EXTENDS Integers, Sequences, FiniteSets, TLC

VARIABLES
    device,      \* SpecGrade: the StorageDevice handed to _grade_device
    result,      \* SpecGrade: the GradedDevice it returned, or NoResult
    devices,     \* grade_devices: the list of StorageDevice it was given
    graded,      \* grade_devices: the results built so far
    bpc,         \* grade_devices: "idle", "grading", "done" or "raised"
    candidates,  \* DeviceManager: the devices attached, with what each command does
    scan_env,    \* DeviceManager: what the two listing commands do
    spc,         \* DeviceManager.scan_devices / main: position
    si,          \* DeviceManager.scan_devices: index of the next candidate
    scan_cmd,    \* Devices: what `smartctl --scan-open -j` does
    scan_output, \* Devices: the "devices" array the scan command prints
    ignore,      \* Devices: ignore_ata, ignore_nvme, ignore_scsi
    scanned,     \* Devices.scanned
    failures,    \* Devices.failures
    analysed,    \* Devices.devices
    tasks,       \* Devices.analyse_devices: the futures of the thread pool
    dpc,         \* Devices.__init__: position
    dexc,        \* Devices.__init__: the exception it raised, or "none"
    di,          \* Devices.scan_devices: index of the next scan entry
    ci,          \* Executor.map: the last future the result iterator has yet to cancel
    control_list,    \* CDIGradingTool.control_list: device path -> its entry's thread (0: no entry)
    threads,         \* the Grading threads started so far, in creation order
    signals,         \* finished signals emitted and not yet delivered to the slot
    native_finished, \* whether QThread's own finished signal is the one connected
    job_loop         \* process_*_devices: the rows still to start, and the thread just started

devicesVars == <<scan_cmd, scan_output, ignore, scanned, failures, analysed, tasks, dpc, dexc, di, ci>>

guiVars == <<control_list, threads, signals, native_finished, job_loop>>

vars == <<device, result, devices, graded, bpc, candidates, scan_env, spc, si,
          scan_cmd, scan_output, ignore, scanned, failures, analysed, tasks, dpc, dexc, di, ci,
          control_list, threads, signals, native_finished, job_loop>>

-----------------------------------------------------------------------------
(* Tagged JSON values *)

Absent == [tag |-> "absent", n |-> 0]
Null == [tag |-> "null", n |-> 0]
Bad == [tag |-> "bad", n |-> 0]
Num(n) == [tag |-> "int", n |-> n]
IsNum(v) == v.tag = "int"
IsAbsent(v) == v.tag = "absent"

\* dict.get(key) is None: the key is missing or holds null
IsNone(v) == v.tag \in {"absent", "null"}

\* dict.get(key, default)
Get(v, default) == IF IsAbsent(v) THEN default ELSE v

\* a JSON string, or the key is missing
Str(s) == [tag |-> "str", s |-> s]
NoStr == [tag |-> "absent", s |-> ""]

\* dict.get(key, default) for a string
GetStr(v, default) == IF v.tag = "absent" THEN default ELSE v.s

\* the characters str.strip() removes, those for which str.isspace() is
\* true: U+0009 to U+000D, U+001C to U+001F, U+0020, U+0085, U+00A0 and
\* U+1680, written here as the characters themselves.  The others of that
\* class (U+2000 to U+200A, U+2028, U+2029, U+202F, U+205F, U+3000) are no
\* characters of a string of this module: no string literal can hold them
Whitespace ==
    {"\t", "\n", "", "\f", "\r", "", "", "", "", " ", "", " ", " "}

\* str.strip(): the string without its leading and trailing whitespace

RECURSIVE Strip(_)
Strip(s) ==
    IF Len(s) > 0 /\ SubSeq(s, 1, 1) \in Whitespace THEN Strip(SubSeq(s, 2, Len(s)))
    ELSE IF Len(s) > 0 /\ SubSeq(s, Len(s), Len(s)) \in Whitespace
    THEN Strip(SubSeq(s, 1, Len(s) - 1))
    ELSE s

-----------------------------------------------------------------------------
(* Thresholds: GradingEngine class attributes *)

PENDING_SECTORS_THRESHOLD == 10
REALLOCATED_SECTORS_THRESHOLD == 10
PERCENT_USED_THRESHOLD == 100
AVAILABLE_SPARE_THRESHOLD == 97
WORKLOAD_THRESHOLD_TB_PER_YEAR == 550
MEDIA_ERRORS_THRESHOLD == 10
CRITICAL_TEMP_TIME_THRESHOLD == 0
WARNING_TEMP_TIME_THRESHOLD == 60

-----------------------------------------------------------------------------
(* StorageDevice.smart_data and StorageDevice.nvme_data                    *)
(*                                                                         *)
(* smart_data is None (tag "none") or a dictionary (tag "dict") with       *)
(*   other      some key the grading engine does not read is present       *)
(*              (model_name, serial_number, ...)                           *)
(*   has_attrs  the key "ata_smart_attributes" is present                  *)
(*   table      ata_smart_attributes.table, a list of attributes           *)
(*   reads_mib, writes_mib   ata_smart_data.host_reads_mib / host_writes_mib *)
(*   poh        power_on_time.hours                                        *)
(*   self_tests the self-test log: one BOOLEAN per logged test, TRUE when  *)
(*              the test passed                                            *)
(*   grown_defects  scsi_grown_defect_list, which SCSI devices report      *)
(* nvme_data is None or a dictionary with                                  *)
(*   other      some other key is present ("smartctl", "error_log", ...)   *)
(*   log_kind   "absent": no nvme_smart_health_information_log key;        *)
(*              "dict": the key holds a dictionary (log);                  *)
(*              "other": the key holds something that is no dictionary     *)
(*   log        the health log's fields                                    *)
(*   self_tests the NVMe self-test log                                     *)
(***************************************************************************)

NoneData == [tag |-> "none"]

SmartDict(other, has_attrs, table, reads, writes, poh, tests) ==
    [tag |-> "dict", other |-> other, has_attrs |-> has_attrs, table |-> table,
     reads_mib |-> reads, writes_mib |-> writes, poh |-> poh, self_tests |-> tests,
     grown_defects |-> Absent]

EmptySmart == SmartDict(FALSE, FALSE, <<>>, Absent, Absent, Absent, <<>>)

HealthLog(pu, sp, sp2, me, ct, wt, dur, duw, poh) ==
    [percentage_used |-> pu, available_spare |-> sp, avail_spare |-> sp2,
     media_errors |-> me, critical_comp_time |-> ct, warning_temp_time |-> wt,
     data_units_read |-> dur, data_units_written |-> duw, power_on_hours |-> poh]

EmptyLog == HealthLog(Absent, Absent, Absent, Absent, Absent, Absent, Absent, Absent, Absent)

NvmeDict(other, log_kind, log, tests) ==
    [tag |-> "dict", other |-> other, log_kind |-> log_kind, log |-> log,
     self_tests |-> tests]

EmptyNvme == NvmeDict(FALSE, "absent", EmptyLog, <<>>)

\* bool(smart_data): None and {} are falsy
SmartTruthy(sd) ==
    /\ sd.tag = "dict"
    /\ \/ sd.other
       \/ sd.has_attrs
       \/ ~IsAbsent(sd.reads_mib)
       \/ ~IsAbsent(sd.writes_mib)
       \/ ~IsAbsent(sd.poh)
       \/ Len(sd.self_tests) > 0
       \/ ~IsAbsent(sd.grown_defects)

\* bool(nvme_data)
NvmeTruthy(nd) ==
    /\ nd.tag = "dict"
    /\ \/ nd.other
       \/ nd.log_kind # "absent"
       \/ Len(nd.self_tests) > 0

\* model and serial are "Unknown" until a scan sets them (Identified); the
\* graders read neither
StorageDevice(path, protocol, smart_data, nvme_data) ==
    [path |-> path, protocol |-> protocol, model |-> "Unknown", serial |-> "Unknown",
     smart_data |-> smart_data, nvme_data |-> nvme_data]

-----------------------------------------------------------------------------
(* GradedDevice *)

NoWorkload == [tag |-> "none", q |-> 0, r |-> 0, hours |-> 0]

GradedDevice(dev, status, failure_reason, flag_reason, workload) ==
    [device |-> dev, status |-> status, failure_reason |-> failure_reason,
     flag_reason |-> flag_reason, workload_tb_per_year |-> workload]

\* an exception leaving the function, in place of a return value
Raised(dev) == GradedDevice(dev, "raise", "none", "none", NoWorkload)

NoResult == [status |-> "no result"]

-----------------------------------------------------------------------------
(* Attribute lookup: GradingEngine._get_smart_attribute and the two value  *)
(* readers.  An attribute is [id, name, value, raw]; raw is raw.value.     *)

Attr(id, name, value, raw) == [none |-> FALSE, id |-> id, name |-> name, value |-> value, raw |-> raw]

\* Python's None, as returned by _get_smart_attribute
NoneAttr == [none |-> TRUE, id |-> 0, name |-> "", value |-> Absent, raw |-> Absent]

RECURSIVE ScanTable(_, _, _, _)
ScanTable(table, i, attr_id, attr_name) ==
    IF i > Len(table) THEN NoneAttr
    ELSE IF table[i].id = attr_id THEN table[i]
    ELSE IF attr_name # "" /\ table[i].name = attr_name THEN table[i]
    ELSE ScanTable(table, i + 1, attr_id, attr_name)

_get_smart_attribute(smart_data, attr_id, attr_name) ==
    IF ~SmartTruthy(smart_data) \/ ~smart_data.has_attrs THEN NoneAttr
    ELSE ScanTable(smart_data.table, 1, attr_id, attr_name)

\* int(attribute["raw"]["value"]), 0 when missing or when int() raises
_get_attribute_raw_value(attribute) ==
    IF ~attribute.none /\ IsNum(attribute.raw) THEN attribute.raw.n ELSE 0

\* int(attribute["value"]), 100 when missing or when int() raises
_get_attribute_value(attribute) ==
    IF ~attribute.none /\ IsNum(attribute.value) THEN attribute.value.n ELSE 100

-----------------------------------------------------------------------------
(* Workload: GradingEngine._calculate_workload.                            *)
(*                                                                         *)
(* The code computes, in floating point,                                   *)
(*     (total_bytes / 1024**4) / (poh / (24 * 365.25)).                    *)
(* The model keeps the value as an exact fraction with denominator         *)
(* 2^27 * poh: total_bytes is total * unit with unit = 512 * 1000 (NVMe    *)
(* data units) or 1024 * 1024 (MiB), 24 * 365.25 = 8766 = 2 * 4383, so     *)
(*     workload = total * (unit * 4383 / 2^12) / (2^27 * poh)              *)
(* and unit * 4383 / 2^12 is the integer 125 * 4383 or 256 * 4383.  The    *)
(* numerator is held as quotient q and remainder r by 2^27, so that no     *)
(* intermediate value leaves 31 bits: workload = (q + r / 2^27) / poh.     *)
(* A byte counter that is null raises TypeError when it is multiplied by   *)
(* its unit; one that is a string is repeated by the multiplication, and   *)
(* the TypeError comes when it is added to a number or divided.            *)

HoursPerYearHalf == (24 * 36525) \div 200      \* 24 * 365.25 / 2
NvmeUnitFactor == ((512 * 1000) \div 4096) * HoursPerYearHalf
MibUnitFactor == ((1024 * 1024) \div 4096) * HoursPerYearHalf
TwoTo27 == 2 ^ 27

\* <<quotient, remainder>> of a * b by m, by doubling (a, m < 2^30)
RECURSIVE MulDivMod(_, _, _)
MulDivMod(a, b, m) ==
    IF b = 0 THEN <<0, 0>>
    ELSE LET h == MulDivMod(a, b \div 2, m)
             q2 == 2 * h[1] + ((2 * h[2]) \div m)
             r2 == (2 * h[2]) % m
         IN IF b % 2 = 1
            THEN <<q2 + (a \div m) + ((r2 + (a % m)) \div m), (r2 + (a % m)) % m>>
            ELSE <<q2, r2>>

Workload(total, factor, hours) ==
    LET qr == MulDivMod(total, factor, TwoTo27)
    IN [tag |-> "tb", q |-> qr[1], r |-> qr[2], hours |-> hours]

\* workload > threshold
WorkloadGT(w, threshold) ==
    \/ w.q > threshold * w.hours
    \/ w.q = threshold * w.hours /\ w.r > 0

\* the returned tuple (workload, poh_hours)
WorkloadTuple(workload, poh) == [kind |-> "tuple", workload |-> workload, poh |-> poh]

\* _calculate_workload leaves with TypeError
WorkloadRaise == [kind |-> "raise", workload |-> NoWorkload, poh |-> Absent]

\* host_reads_bytes and host_writes_bytes as the two if-blocks leave them: the
\* counters of the health log when it is a dictionary, else those of
\* ata_smart_data, else 0
HostCounters(dev) ==
    LET sd == dev.smart_data
        nd == dev.nvme_data
    IN  IF NvmeTruthy(nd) /\ nd.log_kind = "dict"
        THEN <<Get(nd.log.data_units_read, Num(0)), Get(nd.log.data_units_written, Num(0))>>
        ELSE IF SmartTruthy(sd)
        THEN <<Get(sd.reads_mib, Num(0)), Get(sd.writes_mib, Num(0))>>
        ELSE <<Num(0), Num(0)>>

\* a multiplication of a counter by its unit raises: None * 1024, None * 512
CounterTimesUnitRaises(dev) ==
    LET sd == dev.smart_data
        nd == dev.nvme_data
    IN  \/ SmartTruthy(sd) /\ (sd.reads_mib = Null \/ sd.writes_mib = Null)
        \/ NvmeTruthy(nd) /\ nd.log_kind = "dict"
               /\ (nd.log.data_units_read = Null \/ nd.log.data_units_written = Null)

\* poh_hours before int(): power_on_time.hours, replaced by the health log's
\* power_on_hours unless that is None
PowerOnHours(d) ==
    IF NvmeTruthy(d.nvme_data) /\ d.nvme_data.log_kind = "dict"
           /\ ~IsNone(d.nvme_data.log.power_on_hours)
    THEN d.nvme_data.log.power_on_hours
    ELSE IF SmartTruthy(d.smart_data) /\ ~IsNone(d.smart_data.poh) THEN d.smart_data.poh
    ELSE Absent

\* a faulty variant of _calculate_workload: power-on hours that are missing,
\* unparseable or not positive count as one hour
CalculateWorkloadAnyHours(dev) ==
    LET counters == HostCounters(dev)
        useNvme == NvmeTruthy(dev.nvme_data) /\ dev.nvme_data.log_kind = "dict"
        factor == IF useNvme THEN NvmeUnitFactor ELSE MibUnitFactor
        poh_hours == PowerOnHours(dev)
    IN  IF CounterTimesUnitRaises(dev) THEN WorkloadRaise
        ELSE IF IsNum(counters[1]) # IsNum(counters[2]) THEN WorkloadRaise
        ELSE IF ~IsNum(counters[1]) THEN WorkloadRaise
        ELSE IF ~IsNum(poh_hours) \/ poh_hours.n <= 0
        THEN WorkloadTuple(Workload(counters[1].n + counters[2].n, factor, 1), Num(1))
        ELSE WorkloadTuple(Workload(counters[1].n + counters[2].n, factor, poh_hours.n), poh_hours)

_calculate_workload(dev) ==
    LET counters == HostCounters(dev)
        useNvme == NvmeTruthy(dev.nvme_data) /\ dev.nvme_data.log_kind = "dict"
        factor == IF useNvme THEN NvmeUnitFactor ELSE MibUnitFactor
        poh_hours == PowerOnHours(dev)
    IN  IF CounterTimesUnitRaises(dev) THEN WorkloadRaise
        \* total_bytes = host_reads_bytes + host_writes_bytes: str + int
        ELSE IF IsNum(counters[1]) # IsNum(counters[2]) THEN WorkloadRaise
        ELSE IF IsNone(poh_hours) THEN WorkloadTuple(NoWorkload, Absent)
        \* int(poh_hours) raises ValueError
        ELSE IF ~IsNum(poh_hours) THEN WorkloadTuple(NoWorkload, Absent)
        ELSE IF poh_hours.n <= 0 THEN WorkloadTuple(NoWorkload, poh_hours)
        \* total_bytes / 1024**4 with total_bytes a string
        ELSE IF ~IsNum(counters[1]) THEN WorkloadRaise
        ELSE WorkloadTuple(Workload(counters[1].n + counters[2].n, factor, poh_hours.n), poh_hours)

-----------------------------------------------------------------------------
(* The grading engine: GradingEngine._grade_device and the two protocol    *)
(* graders.  A comparison of a value that is no number with a threshold    *)
(* raises TypeError; the graders return Raised(dev) where the code raises. *)

ErrorResult(dev) == GradedDevice(dev, "error", "data_read_error", "none", NoWorkload)
FailResult(dev, reason) == GradedDevice(dev, "fail", reason, "none", NoWorkload)
PassResult(dev) == GradedDevice(dev, "pass", "none", "none", NoWorkload)
\* a faulty variant of the flagged results: status FLAGGED of DeviceStatus
FlagResultFlagged(dev, flag, workload) == GradedDevice(dev, "flagged", "none", flag, workload)

FlagResult(dev, flag, workload) == GradedDevice(dev, "pass", "none", flag, workload)

\* TODO in the code: the self-test history is not read
_has_failed_self_test(dev) == FALSE

\* a faulty variant of _grade_nvme_device: media errors are checked before
\* the available spare
GradeNvmeMediaErrorsFirst(dev) ==
    IF dev.nvme_data.tag = "none" THEN ErrorResult(dev)
    ELSE
    LET health_log == IF dev.nvme_data.log_kind = "dict" THEN dev.nvme_data.log ELSE EmptyLog
        percentage_used == Get(health_log.percentage_used, Num(0))
        available_spare == Get(health_log.available_spare, Get(health_log.avail_spare, Num(100)))
        media_errors == Get(health_log.media_errors, Num(0))
        critical_comp_time == Get(health_log.critical_comp_time, Num(0))
        warning_temp_time == Get(health_log.warning_temp_time, Num(0))
        wl == _calculate_workload(dev)
    IN  IF ~IsNum(percentage_used) THEN Raised(dev)
        ELSE IF percentage_used.n > PERCENT_USED_THRESHOLD THEN FailResult(dev, "percent_used")
        ELSE IF ~IsNum(media_errors) THEN Raised(dev)
        ELSE IF media_errors.n > MEDIA_ERRORS_THRESHOLD THEN FailResult(dev, "media_errors")
        ELSE IF ~IsNum(available_spare) THEN Raised(dev)
        ELSE IF available_spare.n <= AVAILABLE_SPARE_THRESHOLD THEN FailResult(dev, "available_spare")
        ELSE IF ~IsNum(critical_comp_time) THEN Raised(dev)
        ELSE IF critical_comp_time.n > CRITICAL_TEMP_TIME_THRESHOLD THEN FailResult(dev, "critical_temp")
        ELSE IF ~IsNum(warning_temp_time) THEN Raised(dev)
        ELSE IF warning_temp_time.n > WARNING_TEMP_TIME_THRESHOLD
             THEN FlagResult(dev, "temp_warning", NoWorkload)
        ELSE IF wl.kind = "raise" THEN Raised(dev)
        ELSE IF wl.workload.tag # "none" /\ WorkloadGT(wl.workload, WORKLOAD_THRESHOLD_TB_PER_YEAR)
             THEN FlagResult(dev, "heavy_use", wl.workload)
        ELSE PassResult(dev)

_grade_nvme_device(dev) ==
    IF dev.nvme_data.tag = "none" THEN ErrorResult(dev)
    ELSE
    LET health_log == IF dev.nvme_data.log_kind = "dict" THEN dev.nvme_data.log ELSE EmptyLog
        percentage_used == Get(health_log.percentage_used, Num(0))
        available_spare == Get(health_log.available_spare, Get(health_log.avail_spare, Num(100)))
        media_errors == Get(health_log.media_errors, Num(0))
        critical_comp_time == Get(health_log.critical_comp_time, Num(0))
        warning_temp_time == Get(health_log.warning_temp_time, Num(0))
        wl == _calculate_workload(dev)
    IN  IF ~IsNum(percentage_used) THEN Raised(dev)
        ELSE IF percentage_used.n > PERCENT_USED_THRESHOLD THEN FailResult(dev, "percent_used")
        ELSE IF ~IsNum(available_spare) THEN Raised(dev)
        ELSE IF available_spare.n <= AVAILABLE_SPARE_THRESHOLD THEN FailResult(dev, "available_spare")
        ELSE IF ~IsNum(media_errors) THEN Raised(dev)
        ELSE IF media_errors.n > MEDIA_ERRORS_THRESHOLD THEN FailResult(dev, "media_errors")
        ELSE IF ~IsNum(critical_comp_time) THEN Raised(dev)
        ELSE IF critical_comp_time.n > CRITICAL_TEMP_TIME_THRESHOLD THEN FailResult(dev, "critical_temp")
        ELSE IF ~IsNum(warning_temp_time) THEN Raised(dev)
        ELSE IF warning_temp_time.n > WARNING_TEMP_TIME_THRESHOLD
             THEN FlagResult(dev, "temp_warning", NoWorkload)
        \* workload, poh = self._calculate_workload(device)
        ELSE IF wl.kind = "raise" THEN Raised(dev)
        ELSE IF wl.workload.tag # "none" /\ WorkloadGT(wl.workload, WORKLOAD_THRESHOLD_TB_PER_YEAR)
             THEN FlagResult(dev, "heavy_use", wl.workload)
        ELSE PassResult(dev)

\* pending sectors: raw value of attribute 197 / Current_Pending_Sector
SataPendingSectors(dev) ==
    _get_attribute_raw_value(_get_smart_attribute(dev.smart_data, 197, "Current_Pending_Sector"))

\* reallocated sectors: raw value of attribute 5 / Reallocated_Sector_Ct
SataReallocatedSectors(dev) ==
    _get_attribute_raw_value(_get_smart_attribute(dev.smart_data, 5, "Reallocated_Sector_Ct"))

\* percentage used: 100 - value of attribute 231 / SSD_Life_Left, and when
\* there is no such attribute the raw value of Percent_Lifetime_Used
SataPercentageUsed(dev) ==
    LET percent_used_attr == _get_smart_attribute(dev.smart_data, 231, "SSD_Life_Left")
        percent_used_attr_alt == _get_smart_attribute(dev.smart_data, -1, "Percent_Lifetime_Used")
    IN  IF percent_used_attr.none
        THEN _get_attribute_raw_value(percent_used_attr_alt)
        ELSE 100 - _get_attribute_value(percent_used_attr)

\* available spare: value of attribute 173 / Available_Reservd_Space
SataAvailableSpare(dev) ==
    _get_attribute_value(_get_smart_attribute(dev.smart_data, 173, "Available_Reservd_Space"))

\* a faulty variant of _grade_sata_sas_device: reallocated sectors are checked
\* before pending sectors
GradeSataReallocatedFirst(dev) ==
    IF dev.smart_data.tag = "none" THEN ErrorResult(dev)
    ELSE IF SataReallocatedSectors(dev) > REALLOCATED_SECTORS_THRESHOLD
    THEN FailResult(dev, "reallocated_sectors")
    ELSE IF SataPendingSectors(dev) > PENDING_SECTORS_THRESHOLD
    THEN FailResult(dev, "pending_sectors")
    ELSE IF SataPercentageUsed(dev) > PERCENT_USED_THRESHOLD
    THEN FailResult(dev, "percent_used")
    ELSE IF SataAvailableSpare(dev) <= AVAILABLE_SPARE_THRESHOLD
    THEN FailResult(dev, "available_spare")
    ELSE Raised(dev)

_grade_sata_sas_device(dev) ==
    IF dev.smart_data.tag = "none" THEN ErrorResult(dev)
    ELSE
    LET \* workload = self._calculate_workload(device): the tuple itself
        workload == _calculate_workload(dev)
    IN  IF SataPendingSectors(dev) > PENDING_SECTORS_THRESHOLD
        THEN FailResult(dev, "pending_sectors")
        ELSE IF SataReallocatedSectors(dev) > REALLOCATED_SECTORS_THRESHOLD
        THEN FailResult(dev, "reallocated_sectors")
        ELSE IF SataPercentageUsed(dev) > PERCENT_USED_THRESHOLD
        THEN FailResult(dev, "percent_used")
        ELSE IF SataAvailableSpare(dev) <= AVAILABLE_SPARE_THRESHOLD
        THEN FailResult(dev, "available_spare")
        ELSE IF workload.kind = "raise" THEN Raised(dev)
        \* workload > 550 with workload a tuple: TypeError
        ELSE IF workload.kind = "tuple" THEN Raised(dev)
        ELSE IF WorkloadGT(workload, WORKLOAD_THRESHOLD_TB_PER_YEAR)
        THEN FlagResult(dev, "heavy_use", workload)
        ELSE PassResult(dev)

\* a faulty variant of the body of _grade_device: a device whose model could
\* not be read is treated as a device without telemetry
GradeBodyUnknownModel(dev) ==
    IF dev.model = "Unknown" THEN ErrorResult(dev)
    ELSE IF ~SmartTruthy(dev.smart_data) /\ ~NvmeTruthy(dev.nvme_data) THEN ErrorResult(dev)
    ELSE IF _has_failed_self_test(dev) THEN FailResult(dev, "failed_self_test")
    ELSE IF dev.protocol = "nvme" THEN _grade_nvme_device(dev)
    ELSE _grade_sata_sas_device(dev)

\* the body of the try block of _grade_device
GradeBody(dev) ==
    IF ~SmartTruthy(dev.smart_data) /\ ~NvmeTruthy(dev.nvme_data) THEN ErrorResult(dev)
    ELSE IF _has_failed_self_test(dev) THEN FailResult(dev, "failed_self_test")
    ELSE IF dev.protocol = "nvme" THEN _grade_nvme_device(dev)
    ELSE _grade_sata_sas_device(dev)

\* a faulty variant of _grade_device: no except clause, the exception leaves
GradeDeviceUncaught(dev) == GradeBody(dev)

\* except Exception: Error / DataReadError
_grade_device(dev) ==
    LET r == GradeBody(dev)
    IN  IF r.status = "raise" THEN ErrorResult(dev) ELSE r

\* [self._grade_device(device) for device in devices]
grade_devices(devs) == [i \in 1..Len(devs) |-> _grade_device(devs[i])]

-----------------------------------------------------------------------------
(* Telemetry the specifications draw from.  The attribute table lists the  *)
(* attributes in the order smartctl prints them (by id).                   *)

PendingChoices ==
    {<<>>} \cup {<<Attr(197, "Current_Pending_Sector", Num(100), v)>> :
                    v \in {Num(0), Num(10), Num(15)}}

ReallocatedChoices ==
    {<<>>} \cup {<<Attr(5, "Reallocated_Sector_Ct", Num(100), v)>> :
                    v \in {Num(3), Num(10), Num(15)}}

LifeLeftChoices ==
    {<<>>} \cup {<<Attr(231, "SSD_Life_Left", v, Num(0))>> : v \in {Num(100), Num(0)}}

LifetimeUsedChoices ==
    {<<>>} \cup {<<Attr(202, "Percent_Lifetime_Used", Num(100), v)>> :
                    v \in {Num(100), Num(101)}}

SpareChoices ==
    {<<>>} \cup {<<Attr(173, "Available_Reservd_Space", v, Num(0))>> :
                    v \in {Num(97), Num(98), Bad}}

\* <<host_reads_mib, host_writes_mib, power_on_time.hours>>: 576716800 MiB
\* in 8766 hours is 550 TB/year
SataWorkloadChoices ==
    {<<Absent, Absent, Absent>>,
     <<Num(576716800), Num(0), Num(8766)>>,
     <<Num(576716800), Num(1), Num(8766)>>,
     <<Num(576716800), Num(1), Num(0)>>,
     <<Num(576716800), Num(1), Num(-8766)>>,
     <<Num(576716800), Num(1), Bad>>,
     <<Num(576716800), Num(1), Null>>,
     <<Null, Num(1), Num(8766)>>,
     <<Bad, Num(1), Absent>>}

SelfTestChoices == {<<>>, <<TRUE>>, <<TRUE, FALSE>>}

SataInputs ==
    {StorageDevice("/dev/sda", protocol,
                   SmartDict(TRUE, TRUE, r \o s \o p \o l \o u, w[1], w[2], w[3], t),
                   NoneData) :
        protocol \in {"sata", "sas"}, r \in ReallocatedChoices, s \in SpareChoices,
        p \in PendingChoices, l \in LifeLeftChoices, u \in LifetimeUsedChoices,
        w \in SataWorkloadChoices, t \in SelfTestChoices}

\* <<data_units_read, data_units_written, power_on_hours>>: 590558003.2
\* data units in 4383 hours are 550 TB/year
NvmeWorkloadChoices ==
    {<<Absent, Absent, Absent>>,
     <<Num(590558003), Num(0), Num(4383)>>,
     <<Num(590558003), Num(1), Num(4383)>>,
     <<Num(590558003), Num(1), Bad>>,
     <<Num(590558003), Num(1), Num(0)>>,
     <<Num(590558003), Num(1), Num(-4383)>>,
     <<Num(590558003), Num(1), Null>>,
     <<Null, Num(1), Num(4383)>>,
     <<Num(1), Null, Absent>>,
     <<Bad, Num(1), Num(4383)>>,
     <<Bad, Bad, Num(4383)>>,
     <<Bad, Bad, Bad>>}

NvmeLogs ==
    {HealthLog(pu, sp, sp2, me, ct, wt, w[1], w[2], w[3]) :
        pu \in {Absent, Num(45), Num(100), Num(101), Bad},
        sp \in {Absent, Num(90), Num(97), Num(98), Bad},
        sp2 \in {Absent, Num(90)},
        me \in {Absent, Num(10), Num(11), Bad},
        ct \in {Absent, Num(1)},
        wt \in {Absent, Num(60), Num(120), Null},
        w \in NvmeWorkloadChoices}

\* smartctl -i gave the identity of the device, or nothing
IdentitySmart == SmartDict(TRUE, FALSE, <<>>, Absent, Absent, Absent, <<>>)

\* smartctl gave the identity and power_on_time.hours
HoursSmart == SmartDict(TRUE, FALSE, <<>>, Absent, Absent, Num(4383), <<>>)

NvmeInputs ==
    {StorageDevice("/dev/nvme0", "nvme", sd, NvmeDict(FALSE, "dict", log, t)) :
        sd \in {EmptySmart, IdentitySmart, HoursSmart}, log \in NvmeLogs,
        t \in {<<>>, <<TRUE, FALSE>>}}

\* devices with little or no telemetry, of either protocol
BareInputs ==
    {StorageDevice("/dev/sdb", protocol, sd, nd) :
        protocol \in {"sata", "sas", "nvme", "unknown"},
        sd \in {NoneData, EmptySmart, IdentitySmart},
        nd \in {NoneData, EmptyNvme, NvmeDict(TRUE, "absent", EmptyLog, <<>>),
                NvmeDict(FALSE, "other", EmptyLog, <<>>),
                NvmeDict(FALSE, "dict", EmptyLog, <<>>)}}

\* SCSI devices: no ATA attribute table, a grown defect list
ScsiInputs ==
    {StorageDevice("/dev/sdc", "sas",
                   [SmartDict(other, FALSE, <<>>, Absent, Absent, poh, <<>>)
                        EXCEPT !.grown_defects = g],
                   NoneData) :
        other \in BOOLEAN, poh \in {Absent, Num(8766)}, g \in {Num(0), Num(10), Num(20)}}

DeviceInputs == SataInputs \cup NvmeInputs \cup BareInputs \cup ScsiInputs

NoDevice == StorageDevice("", "unknown", NoneData, NoneData)

-----------------------------------------------------------------------------
(* SpecGrade: one call of GradingEngine._grade_device *)

BatchIdle == devices = <<>> /\ graded = <<>> /\ bpc = "idle"

ScanIdle == candidates = <<>> /\ scan_env = "ok" /\ spc = "idle" /\ si = 1

NoIgnore == [ata |-> FALSE, nvme |-> FALSE, scsi |-> FALSE]

DevicesIdle ==
    /\ scan_cmd = "ok" /\ scan_output = <<>> /\ ignore = NoIgnore
    /\ scanned = <<>> /\ failures = <<>> /\ analysed = <<>> /\ tasks = <<>>
    /\ dpc = "idle" /\ dexc = "none" /\ di = 1 /\ ci = 0

\* the device paths of the rows of the GUI's devices table
TablePaths == {"/dev/sda", "/dev/sdb"}

\* CDIGradingTool before any job: control_list = {} and no Grading thread
\* no call of process_all_devices or process_selected_devices is under way
NoJobLoop == [devices |-> <<>>, grading_thread |-> 0]

GuiIdle ==
    /\ control_list = [p \in TablePaths |-> 0]
    /\ threads = <<>>
    /\ signals = <<>>
    /\ native_finished = FALSE
    /\ job_loop = NoJobLoop

InitGrade ==
    /\ GuiIdle
    /\ device \in DeviceInputs
    /\ result = NoResult
    /\ BatchIdle
    /\ ScanIdle
    /\ DevicesIdle

Grade ==
    /\ result = NoResult
    /\ result' = _grade_device(device)
    /\ UNCHANGED <<device, devices, graded, bpc, candidates, scan_env, spc, si>>
    /\ UNCHANGED devicesVars
    /\ UNCHANGED guiVars

NextGrade == Grade

SpecGrade == InitGrade /\ [][NextGrade]_vars

-----------------------------------------------------------------------------
(* Properties of one grading call (SpecGrade) *)

\* some telemetry was obtained: the first rule of _grade_device does not apply
HasTelemetry(d) == SmartTruthy(d.smart_data) \/ NvmeTruthy(d.nvme_data)

IsAtaScsi(d) == d.protocol \in {"sata", "sas"}

\* the telemetry logs a self-test that did not pass
FailedSelfTestLogged(d) ==
    \/ d.smart_data.tag = "dict" /\ \E i \in DOMAIN d.smart_data.self_tests : ~d.smart_data.self_tests[i]
    \/ d.nvme_data.tag = "dict" /\ \E i \in DOMAIN d.nvme_data.self_tests : ~d.nvme_data.self_tests[i]

Graded == result # NoResult

\* C1: an ATA/SCSI device with telemetry and no failed self-test is failed by
\* the first of pending_sectors > 10, reallocated_sectors > 10,
\* percent_used > 100, available_spare <= 97 that fires, and by nothing else;
\* with pending and reallocated sectors both over threshold the result is
\* Fail/PendingSectors.
C1_SataCheckOrder ==
    (Graded /\ IsAtaScsi(device) /\ HasTelemetry(device) /\ ~FailedSelfTestLogged(device)) =>
        LET pending == SataPendingSectors(device) > 10
            reallocated == SataReallocatedSectors(device) > 10
            used == SataPercentageUsed(device) > 100
            spare == SataAvailableSpare(device) <= 97
        IN  /\ pending => result = FailResult(device, "pending_sectors")
            /\ (~pending /\ reallocated) => result = FailResult(device, "reallocated_sectors")
            /\ (~pending /\ ~reallocated /\ used) => result = FailResult(device, "percent_used")
            /\ (~pending /\ ~reallocated /\ ~used /\ spare)
                   => result = FailResult(device, "available_spare")
            /\ (~pending /\ ~reallocated /\ ~used /\ ~spare) => result.status # "fail"

\* C1 witness: pending and reallocated sectors both over threshold, graded
C1_Witness ==
    /\ Graded /\ IsAtaScsi(device) /\ ~FailedSelfTestLogged(device)
    /\ SataPendingSectors(device) = 15 /\ SataReallocatedSectors(device) = 15
    /\ result.failure_reason = "pending_sectors"

\* C2: an ATA/SCSI device with telemetry on which the four checks pass and
\* whose workload does not exceed 550 TB/year is graded plain Pass.
C2_SataPlainPass ==
    (/\ Graded /\ IsAtaScsi(device) /\ SmartTruthy(device.smart_data)
     /\ ~FailedSelfTestLogged(device)
     /\ SataPendingSectors(device) <= 10 /\ SataReallocatedSectors(device) <= 10
     /\ SataPercentageUsed(device) <= 100 /\ SataAvailableSpare(device) > 97
     /\ LET w == _calculate_workload(device)
        IN  w.kind = "tuple" /\ (w.workload.tag = "none" \/ ~WorkloadGT(w.workload, 550)))
        => result = PassResult(device)

\* the value of a health log field, Absent when there is no health log
NvmeField(d, f) ==
    IF d.nvme_data.tag = "dict" /\ d.nvme_data.log_kind = "dict" THEN d.nvme_data.log[f] ELSE Absent

\* the value the NVMe rule of field f reads: available_spare falls back on
\* avail_spare
NvmeRuleValue(d, f) ==
    IF f = "available_spare"
    THEN Get(NvmeField(d, "available_spare"), NvmeField(d, "avail_spare"))
    ELSE NvmeField(d, f)

\* health_log.get(f, 0) > limit: "True", "False", or "TypeError" when the value
\* is no number
NvmeOver(d, f, limit) ==
    LET v == Get(NvmeRuleValue(d, f), Num(0))
    IN  IF ~IsNum(v) THEN "TypeError" ELSE IF v.n > limit THEN "True" ELSE "False"

\* available_spare <= 97, with avail_spare and then 100 for a missing key
NvmeSpareLow(d) ==
    LET v == Get(NvmeRuleValue(d, "available_spare"), Num(100))
    IN  IF ~IsNum(v) THEN "TypeError" ELSE IF v.n <= 97 THEN "True" ELSE "False"

\* C3: an NVMe device with telemetry and no failed self-test is failed by the
\* first of percent_used > 100, available_spare <= 97, media_errors > 10,
\* critical_temp_minutes > 0 that fires, and by nothing else: a check decides
\* when every check before it was evaluated and did not fire, and a device
\* on which no check fires is not failed.
C3_NvmeCheckOrder ==
    (/\ Graded /\ device.protocol = "nvme" /\ HasTelemetry(device)
     /\ device.nvme_data.tag = "dict" /\ ~FailedSelfTestLogged(device)) =>
        LET used == NvmeOver(device, "percentage_used", 100)
            spare == NvmeSpareLow(device)
            media == NvmeOver(device, "media_errors", 10)
            critical == NvmeOver(device, "critical_comp_time", 0)
            \* the first check that does not evaluate to False
            first == IF used # "False" THEN <<used, "percent_used">>
                     ELSE IF spare # "False" THEN <<spare, "available_spare">>
                     ELSE IF media # "False" THEN <<media, "media_errors">>
                     ELSE <<critical, "critical_temp">>
        IN  /\ first[1] = "True" => result = FailResult(device, first[2])
            /\ first[1] # "True" => result.status # "fail"

\* C3 witness: percentage_used = 45 and available_spare = 90 with media
\* errors over threshold as well, graded Fail/AvailableSpare
C3_Witness ==
    /\ Graded /\ device.protocol = "nvme" /\ ~FailedSelfTestLogged(device)
    /\ NvmeField(device, "percentage_used") = Num(45)
    /\ NvmeField(device, "available_spare") = Num(90)
    /\ NvmeField(device, "media_errors") = Num(11)
    /\ result = FailResult(device, "available_spare")

\* C10: a device whose telemetry logs a failed self-test is graded
\* Fail/FailedSelfTest, before any threshold check and before the flags.
C10_FailedSelfTestFirst ==
    (Graded /\ HasTelemetry(device) /\ FailedSelfTestLogged(device))
        => result = FailResult(device, "failed_self_test")

-----------------------------------------------------------------------------
(* SpecBatch: GradingEngine.grade_devices over a list of devices.  The     *)
(* list comprehension grades the devices one after the other; an exception *)
(* leaving _grade_device would leave grade_devices too, and no list would  *)
(* be returned.                                                            *)

MaxBatch == 3

NvmeWith(path, log) == StorageDevice(path, "nvme", EmptySmart, NvmeDict(FALSE, "dict", log, <<>>))
SataWith(path, table) ==
    StorageDevice(path, "sata", SmartDict(TRUE, TRUE, table, Absent, Absent, Absent, <<>>), NoneData)

\* NVMe, nothing over threshold: Pass
SamplePass == NvmeWith("/dev/nvme0", EmptyLog)
\* NVMe, percentage_used = 45 and available_spare = 90: Fail/AvailableSpare
SampleSpare ==
    NvmeWith("/dev/nvme1", [EmptyLog EXCEPT !.percentage_used = Num(45), !.available_spare = Num(90)])
\* NVMe, percentage_used is no number: TypeError
SampleBadField == NvmeWith("/dev/nvme2", [EmptyLog EXCEPT !.percentage_used = Bad])
\* SATA, reallocated and pending sectors at 15: Fail/PendingSectors
SamplePending ==
    SataWith("/dev/sda", <<Attr(5, "Reallocated_Sector_Ct", Num(100), Num(15)),
                           Attr(197, "Current_Pending_Sector", Num(100), Num(15))>>)
\* SATA, reallocated_sectors = 3 and pending_sectors = 0
SampleClean ==
    SataWith("/dev/sdb", <<Attr(5, "Reallocated_Sector_Ct", Num(100), Num(3)),
                           Attr(197, "Current_Pending_Sector", Num(100), Num(0))>>)
\* no telemetry at all
SampleNoData == StorageDevice("/dev/sdc", "sata", EmptySmart, NoneData)

\* a second device with the telemetry of SamplePass: another path, and a
\* model and serial number that could be read
SamplePassTwin == [SamplePass EXCEPT !.path = "/dev/nvme3", !.model = "PM9A1", !.serial = "S4EWNX0R"]
\* a second device with the telemetry of SamplePending
SamplePendingTwin == [SamplePending EXCEPT !.path = "/dev/sdd", !.model = "WD10EZEX", !.serial = "WCC6Y4"]

BatchSample ==
    {SamplePass, SampleSpare, SampleBadField, SamplePending, SampleClean, SampleNoData,
     SamplePassTwin, SamplePendingTwin}

RECURSIVE SeqsUpTo(_, _)
SeqsUpTo(S, n) ==
    IF n = 0 THEN {<<>>}
    ELSE LET shorter == SeqsUpTo(S, n - 1)
         IN  shorter \cup {Append(q, x) : q \in {t \in shorter : Len(t) = n - 1}, x \in S}

GradeIdle == device = NoDevice /\ result = NoResult

InitBatch ==
    /\ GuiIdle
    /\ GradeIdle
    /\ ScanIdle
    /\ DevicesIdle
    /\ devices \in SeqsUpTo(BatchSample, MaxBatch)
    /\ graded = <<>>
    /\ bpc = "idle"

\* grade_devices is called
StartGrading ==
    /\ bpc = "idle"
    /\ bpc' = "grading"
    /\ graded' = <<>>
    /\ UNCHANGED <<device, result, devices, candidates, scan_env, spc, si>>
    /\ UNCHANGED devicesVars
    /\ UNCHANGED guiVars

\* one element of the list comprehension
GradeNext ==
    /\ bpc = "grading"
    /\ Len(graded) < Len(devices)
    /\ LET r == _grade_device(devices[Len(graded) + 1])
       IN  IF r.status = "raise"
           THEN bpc' = "raised" /\ graded' = <<>>
           ELSE bpc' = bpc /\ graded' = Append(graded, r)
    /\ UNCHANGED <<device, result, devices, candidates, scan_env, spc, si>>
    /\ UNCHANGED devicesVars
    /\ UNCHANGED guiVars

\* grade_devices returns the list
FinishGrading ==
    /\ bpc = "grading"
    /\ Len(graded) = Len(devices)
    /\ bpc' = "done"
    /\ UNCHANGED <<device, result, devices, graded, candidates, scan_env, spc, si>>
    /\ UNCHANGED devicesVars
    /\ UNCHANGED guiVars

NextBatch == StartGrading \/ GradeNext \/ FinishGrading

SpecBatch == InitBatch /\ [][NextBatch]_vars

RemoveAt(q, i) == SubSeq(q, 1, i - 1) \o SubSeq(q, i + 1, Len(q))

\* C4: grade_devices returns one result per device, the i-th for the i-th
\* device; a device whose evaluation raises is Error/DataReadError, and the
\* other results are those of the batch without that device.
C4_BatchOneResultEach ==
    /\ bpc # "raised"
    /\ bpc = "done" =>
        /\ Len(graded) = Len(devices)
        /\ \A i \in 1..Len(devices) :
            /\ graded[i].device = devices[i]
            /\ GradeBody(devices[i]).status = "raise" =>
                /\ graded[i] = ErrorResult(devices[i])
                /\ RemoveAt(graded, i) = grade_devices(RemoveAt(devices, i))

\* C4 witness: a finished batch of three with a device that raised, one that
\* passed and one that failed
C4_Witness ==
    /\ bpc = "done" /\ Len(devices) = 3 /\ Len(graded) = 3
    /\ \E i, j, k \in 1..3 :
        /\ GradeBody(devices[i]).status = "raise"
        /\ graded[j].status = "pass"
        /\ graded[k].status = "fail"

-----------------------------------------------------------------------------
(* DeviceManager (core/device_manager.py) and the scan command of          *)
(* __main__.py: scan_devices, then grade_devices.                          *)
(*                                                                         *)
(* A candidate is a device attached to the machine together with what the  *)
(* diagnostic commands do when run on it:                                  *)
(*   listing  "smartctl": a line of `smartctl --scan`; "nvme": an entry of *)
(*            `nvme list`                                                  *)
(*   detect   what _detect_protocol finds in `smartctl -i` ("unknown" when *)
(*            the command fails)                                           *)
(*   collect  `smartctl -i -A -j`: "ok", "called_process_error", "timeout" *)
(*            or "json_error"; smart is the JSON it prints when "ok"       *)
(*   info     `smartctl -i -j` on an NVMe device: "ok" or "fail"           *)
(*   health   where the NVMe health log comes from: "nvme_cli" (nvme       *)
(*            smart-log), "smartctl" (--xall), "sg_logs", "none" (all      *)
(*            three fail) or "json_error" (a command prints no JSON);      *)
(*            log is the health log obtained                               *)
(*   logs_ok  the error, firmware or self-test log command succeeds        *)
(*   ident    `nvme id-ctrl` / `nvme id-ns`: "ok" or "fail"                *)
(*   model_name, serial_number  the identity keys of the JSON that the     *)
(*            scan reads the identity from (model_name / serial_number of  *)
(*            smartctl, mn / sn of nvme id-ctrl), NoStr when the JSON has  *)
(*            no such key                                                  *)
(*   capacity "ok" or "non_numeric": whether int() takes the capacity that *)
(*            JSON reports (user_capacity.bytes of smartctl, nsze of nvme  *)
(*            id-ns); "non_numeric" when it is a string such as "n/a" or   *)
(*            null                                                         *)

Candidate(path, listing, detect, collect, smart, info, health, log, logs_ok, ident) ==
    [path |-> path, listing |-> listing, detect |-> detect, collect |-> collect,
     smart |-> smart, info |-> info, health |-> health, log |-> log,
     logs_ok |-> logs_ok, ident |-> ident, model_name |-> NoStr, serial_number |-> NoStr,
     capacity |-> "ok"]

SataCandidate(path, detect, collect, smart) ==
    Candidate(path, "smartctl", detect, collect, smart, "fail", "none", EmptyLog, FALSE, "fail")

NvmeCandidate(path, info, health, log, logs_ok, ident) ==
    Candidate(path, "nvme", "nvme", "ok", EmptySmart, info, health, log, logs_ok, ident)

\* Python's None where a StorageDevice is expected
NoneDevice == [path |-> "", protocol |-> "none", smart_data |-> NoneData, nvme_data |-> NoneData]

\* the StorageDevice with the identity a scan gives it
Identified(dev, model, serial) == [dev EXCEPT !.model = model, !.serial = serial]

\* the StorageDevice built from the JSON, None when the command fails, times
\* out or prints no JSON
_collect_sata_sas_data(path, protocol, cand) ==
    IF cand.collect = "ok"
    THEN Identified(StorageDevice(path, protocol, cand.smart, NoneData),
                    GetStr(cand.model_name, "Unknown"), GetStr(cand.serial_number, "Unknown"))
    ELSE NoneDevice

\* the minimal health log _parse_nvme_list constructs when it has none
ConstructedLog ==
    HealthLog(Num(0), Num(100), Absent, Num(0), Absent, Absent, Num(0), Num(0), Absent)

\* one entry of the loop of _parse_nvme_list: the StorageDevice it appends,
\* None when an exception skips the entry (except Exception: continue)
ParseNvmeEntry(cand) ==
    LET smart_data == IF cand.info = "ok" THEN IdentitySmart ELSE EmptySmart
        obtained == cand.health \in {"nvme_cli", "smartctl", "sg_logs"} /\ cand.log # EmptyLog
        health_log == IF obtained THEN cand.log ELSE ConstructedLog
        \* "smartctl", "error_log", "firmware_log", "self_test_log"
        other == cand.info = "ok" \/ (cand.health # "json_error" /\ cand.logs_ok)
        nvme_data == IF cand.health = "json_error"
                     THEN NvmeDict(other, "absent", EmptyLog, <<>>)
                     ELSE NvmeDict(other, "dict", health_log, <<>>)
        \* from the smartctl JSON, else from nvme id-ctrl (stripped), else the
        \* defaults
        model == IF cand.info = "ok" THEN GetStr(cand.model_name, "Unknown")
                 ELSE IF cand.ident = "ok" THEN Strip(GetStr(cand.model_name, "Unknown"))
                 ELSE "Unknown"
        serial == IF cand.info = "ok" THEN GetStr(cand.serial_number, "Unknown")
                  ELSE IF cand.ident = "ok" THEN Strip(GetStr(cand.serial_number, "Unknown"))
                  ELSE "Unknown"
        \* int(user_capacity.bytes) or int(nsze) raises ValueError or TypeError
        skipped == (cand.info = "ok" \/ cand.ident = "ok") /\ cand.capacity = "non_numeric"
    IN  IF skipped THEN NoneDevice
        ELSE Identified(StorageDevice(cand.path, "nvme", smart_data, nvme_data), model, serial)

SataLines(cands) == SelectSeq(cands, LAMBDA c : c.listing = "smartctl")
NvmeEntries(cands) == SelectSeq(cands, LAMBDA c : c.listing = "nvme")

\* scan_devices is called; `smartctl --scan` runs
ScanStart ==
    /\ spc = "idle"
    /\ devices' = <<>>
    /\ si' = 1
    /\ spc' = IF scan_env = "scan_fails" THEN "nvme" ELSE "sata"
    /\ UNCHANGED <<device, result, graded, bpc, candidates, scan_env>>
    /\ UNCHANGED devicesVars
    /\ UNCHANGED guiVars

\* one line of the scan output: _detect_protocol, then _collect_sata_sas_data
ScanSataLine ==
    /\ spc = "sata"
    /\ si <= Len(SataLines(candidates))
    /\ LET cand == SataLines(candidates)[si]
           dev == _collect_sata_sas_data(cand.path, cand.detect, cand)
       IN  devices' = IF cand.detect \in {"sata", "sas"} /\ dev # NoneDevice
                      THEN Append(devices, dev)
                      ELSE devices
    /\ si' = si + 1
    /\ UNCHANGED <<device, result, graded, bpc, candidates, scan_env, spc>>
    /\ UNCHANGED devicesVars
    /\ UNCHANGED guiVars

\* the scan output is exhausted; `nvme list -o json` runs
ScanSataEnd ==
    /\ spc = "sata"
    /\ si > Len(SataLines(candidates))
    /\ spc' = "nvme"
    /\ si' = 1
    /\ UNCHANGED <<device, result, devices, graded, bpc, candidates, scan_env>>
    /\ UNCHANGED devicesVars
    /\ UNCHANGED guiVars

NvmeListOk == scan_env \notin {"nvme_list_fails", "nvme_list_bad_json"}

\* one entry of the NVMe list
ScanNvmeEntry ==
    /\ spc = "nvme"
    /\ NvmeListOk
    /\ si <= Len(NvmeEntries(candidates))
    /\ LET dev == ParseNvmeEntry(NvmeEntries(candidates)[si])
       IN  devices' = IF dev # NoneDevice THEN Append(devices, dev) ELSE devices
    /\ si' = si + 1
    /\ UNCHANGED <<device, result, graded, bpc, candidates, scan_env, spc>>
    /\ UNCHANGED devicesVars
    /\ UNCHANGED guiVars

\* scan_devices returns the list
ScanReturn ==
    /\ spc = "nvme"
    /\ ~NvmeListOk \/ si > Len(NvmeEntries(candidates))
    /\ spc' = "scanned"
    /\ UNCHANGED <<device, result, devices, graded, bpc, candidates, scan_env, si>>
    /\ UNCHANGED devicesVars
    /\ UNCHANGED guiVars

\* main: "No storage devices found" (return 1), or grade_devices is called
MainGrade ==
    /\ spc = "scanned"
    /\ IF devices = <<>>
       THEN spc' = "no_devices" /\ UNCHANGED <<graded, bpc>>
       ELSE spc' = "grading" /\ bpc' = "grading" /\ graded' = <<>>
    /\ UNCHANGED <<device, result, devices, candidates, scan_env, si>>
    /\ UNCHANGED devicesVars
    /\ UNCHANGED guiVars

NextScan ==
    \/ ScanStart \/ ScanSataLine \/ ScanSataEnd \/ ScanNvmeEntry \/ ScanReturn
    \/ MainGrade \/ GradeNext \/ FinishGrading

-----------------------------------------------------------------------------
(* SpecScan: the scan command end to end *)

MaxCandidates == 3

DevicePaths == <<"/dev/disk1", "/dev/disk2", "/dev/disk3", "/dev/disk4", "/dev/disk5">>

\* the serial number of the unit attached at each position
Serials == <<"SN1", "SN2", "SN3", "SN4", "SN5">>

\* the candidate's identity JSON reports this model name and its serial number
Reporting(cand, model_name) == [cand EXCEPT !.model_name = Str(model_name)]

\* the kinds of device a scan meets (the path is set by AttachAt)
CandidateKinds ==
    {Reporting(SataCandidate("", "sata", "ok", SamplePending.smart_data), "WD10EZEX"),
     SataCandidate("", "sas", "ok", SampleClean.smart_data),
     SataCandidate("", "sata", "timeout", EmptySmart),
     SataCandidate("", "sata", "called_process_error", EmptySmart),
     SataCandidate("", "sas", "json_error", EmptySmart),
     SataCandidate("", "unknown", "called_process_error", EmptySmart),
     Reporting(NvmeCandidate("", "ok", "nvme_cli", SampleSpare.nvme_data.log, TRUE, "ok"),
               "PM9A1"),
     NvmeCandidate("", "ok", "smartctl", [EmptyLog EXCEPT !.percentage_used = Num(45)], FALSE, "ok"),
     NvmeCandidate("", "fail", "none", EmptyLog, FALSE, "fail"),
     NvmeCandidate("", "fail", "json_error", EmptyLog, FALSE, "fail"),
     \* nvme id-ctrl prints mn and sn padded with white space
     Reporting(NvmeCandidate("", "fail", "nvme_cli", SamplePass.nvme_data.log, TRUE, "ok"),
               "\tPM9A1  \n"),
     \* nvme id-ns prints an nsze that is no number
     [Reporting(NvmeCandidate("", "fail", "nvme_cli", SamplePass.nvme_data.log, TRUE, "ok"),
                "PM9A1") EXCEPT !.capacity = "non_numeric"]}

AttachAt(kinds) ==
    [i \in 1..Len(kinds) |->
        [kinds[i] EXCEPT !.path = DevicePaths[i],
                         !.serial_number =
                             IF kinds[i].model_name = NoStr THEN NoStr
                             ELSE IF Strip(kinds[i].model_name.s) # kinds[i].model_name.s
                             THEN Str(" " \o Serials[i] \o "\t ")
                             ELSE Str(Serials[i])]]

ScanEnvs == {"ok", "scan_fails", "nvme_list_fails", "nvme_list_bad_json"}

InitScan ==
    /\ GuiIdle
    /\ GradeIdle
    /\ BatchIdle
    /\ DevicesIdle
    /\ candidates \in {AttachAt(k) : k \in SeqsUpTo(CandidateKinds, MaxCandidates)}
    /\ scan_env \in ScanEnvs
    /\ spc = "idle"
    /\ si = 1

SpecScan == InitScan /\ [][NextScan]_vars

\* the scan command has ended: nothing to grade, or the graded list is there
ScanFinished == spc = "no_devices" \/ (spc = "grading" /\ bpc = "done")

\* the candidate is a SATA, SAS or NVMe device that both listings report
Listed(c) == c.listing = "nvme" \/ c.detect \in {"sata", "sas"}

\* probing the candidate fails: the telemetry command fails, times out or
\* prints no JSON
ProbeFails(c) ==
    \/ c.listing = "smartctl" /\ c.collect # "ok"
    \/ c.listing = "nvme" /\ c.info = "fail" /\ c.health \in {"none", "json_error"}

\* no telemetry command gave anything for the candidate
NoTelemetry(c) ==
    \/ c.listing = "smartctl" /\ c.collect # "ok"
    \/ c.listing = "nvme" /\ c.info = "fail" /\ c.health \in {"none", "json_error"}
           /\ ~c.logs_ok /\ c.ident = "fail"

GradedEntries(path) == {j \in 1..Len(graded) : graded[j].device.path = path}

\* C5: when one device of the batch fails its probe, the graded list still has
\* one entry per device and that device's entry is Error/DataReadError.
C5_FailedProbeIsErrorRow ==
    (/\ ScanFinished /\ scan_env = "ok"
     /\ \A i \in 1..Len(candidates) : Listed(candidates[i])
     /\ Cardinality({i \in 1..Len(candidates) : ProbeFails(candidates[i])}) = 1) =>
        /\ Len(graded) = Len(candidates)
        /\ \A i \in 1..Len(candidates) : Cardinality(GradedEntries(candidates[i].path)) = 1
        /\ \A i \in 1..Len(candidates) :
            ProbeFails(candidates[i]) =>
                \E j \in GradedEntries(candidates[i].path) :
                    graded[j].status = "error" /\ graded[j].failure_reason = "data_read_error"

\* C9: a device for which no telemetry was obtained is never graded anything
\* but Error/DataReadError.
C9_NoTelemetryIsError ==
    \A i \in 1..Len(candidates) :
        NoTelemetry(candidates[i]) =>
            \A j \in GradedEntries(candidates[i].path) :
                graded[j].status = "error" /\ graded[j].failure_reason = "data_read_error"

-----------------------------------------------------------------------------
(* classes/devices.py: Devices, the batch scan of the legacy grading tool *)

\* att["raw"]["value"] on an attribute without that key
KeyErrorValue == [tag |-> "KeyError", n |-> 0]

\* ATAProtocol.get_smart_attribute_by_id with its default flags: the raw
\* value of the first attribute with that id; 0 when the table is "Not
\* Reported" or has no such attribute
get_smart_attribute_by_id(reported, attributes, attribute_id) ==
    LET default == Num(0)
        att == ScanTable(attributes, 1, attribute_id, "")
    IN  IF ~reported THEN default
        ELSE IF att.none THEN default
        ELSE IF IsAbsent(att.raw) THEN KeyErrorValue
        ELSE att.raw

\* the health part of a device's smartctl JSON:
\*   smart_passed   smart_status.passed
\*   smart_reported whether the JSON has smart_status.passed at all
\*   hours          power_on_time.hours
\*   table          ata_smart_attributes.table
\*   grown_defects  scsi_grown_defect_list
\*   uncorrected    the total_uncorrected_errors of scsi_error_counter_log,
\*                  Absent when the JSON has no such log
HealthJson(smart_passed, table, grown_defects, uncorrected) ==
    [smart_passed |-> smart_passed, table |-> table, grown_defects |-> grown_defects,
     uncorrected |-> uncorrected, smart_reported |-> TRUE, hours |-> 1234]

\* the same JSON without its smart_status
WithoutSmartStatus(h) == [h EXCEPT !.smart_reported = FALSE, !.smart_passed = FALSE]

\* the truth value of device.smart_status: smart_status.passed, and for a
\* missing key the default of the protocol class, False for ATA and SCSI and
\* the string "Not Reported" for NVMe
device_smart_status(protocol, h) ==
    IF h.smart_reported THEN h.smart_passed ELSE protocol = "NVMe"

GoodHealth == HealthJson(TRUE, <<>>, Absent, Absent)

CDI_MAXIMUM_REALLOCATED_SECTORS == 10
CDI_MAXIMUM_PENDING_SECTORS == 10
CDI_MAXIMUM_UNCORRECTABLE_ERRORS == 10

\* the dictionary of a probed device: Device.to_dict(pop=True);
\* reallocated_sectors is a number, or Absent for None
ProbedDevice(name, protocol, state, reallocated_sectors, passed) ==
    [kind |-> "device", dut |-> name, transport_protocol |-> protocol, state |-> state,
     reallocated_sectors |-> reallocated_sectors,
     cdi_grade |-> IF passed THEN "A" ELSE "F", cdi_eligible |-> passed,
     cdi_certified |-> passed]

\* the grading at the end of ATAProtocol.__init__ (the entries carry no
\* temperature, so highest_temperature stays None); a value that is no number
\* makes the comparison raise
ATAProtocol(name, h) ==
    LET reallocated_sectors == get_smart_attribute_by_id(TRUE, h.table, 5)
        pending_reallocated_sectors == get_smart_attribute_by_id(TRUE, h.table, 197)
        offline_uncorrectable_sectors == get_smart_attribute_by_id(TRUE, h.table, 198)
        start_stop_count == get_smart_attribute_by_id(TRUE, h.table, 4)
        power_cycle_count == get_smart_attribute_by_id(TRUE, h.table, 12)
        load_cycle_count == get_smart_attribute_by_id(TRUE, h.table, 193)
    IN  IF KeyErrorValue \in {reallocated_sectors, pending_reallocated_sectors,
                              offline_uncorrectable_sectors, start_stop_count,
                              power_cycle_count, load_cycle_count}
        THEN [kind |-> "raise", dut |-> "KeyError", transport_protocol |-> ""]
        ELSE IF ~(IsNum(reallocated_sectors) /\ IsNum(pending_reallocated_sectors)
                    /\ IsNum(offline_uncorrectable_sectors))
        THEN [kind |-> "raise", dut |-> "TypeError", transport_protocol |-> ""]
        ELSE LET over == \/ reallocated_sectors.n >= CDI_MAXIMUM_REALLOCATED_SECTORS
                         \/ pending_reallocated_sectors.n >= CDI_MAXIMUM_PENDING_SECTORS
                         \/ offline_uncorrectable_sectors.n >= CDI_MAXIMUM_UNCORRECTABLE_ERRORS
             IN  ProbedDevice(name, "ATA", IF over THEN "Fail" ELSE "Ready",
                              reallocated_sectors, device_smart_status("ATA", h) /\ ~over)

\* the grading at the end of NVMeProtocol.__init__: the SMART status alone;
\* reallocated_sectors keeps the None of Device.__init__
NVMeProtocol(name, h) ==
    ProbedDevice(name, "NVMe", "Ready", Absent, device_smart_status("NVMe", h))

\* the grading at the end of SCSIProtocol.__init__: the grown defect list is
\* the reallocated sector count, -1 when the JSON has none; int() of the
\* uncorrected errors raises ValueError for a string and TypeError for null,
\* before the comparison of the grown defects raises TypeError
SCSIProtocol(name, h) ==
    LET reallocated_sectors == Get(h.grown_defects, Num(-1))
        offline_uncorrectable_sectors == Get(h.uncorrected, Num(-1))
    IN  IF offline_uncorrectable_sectors = Bad
        THEN [kind |-> "raise", dut |-> "ValueError", transport_protocol |-> ""]
        ELSE IF ~IsNum(reallocated_sectors) \/ ~IsNum(offline_uncorrectable_sectors)
        THEN [kind |-> "raise", dut |-> "TypeError", transport_protocol |-> ""]
        ELSE LET over == \/ reallocated_sectors.n >= CDI_MAXIMUM_REALLOCATED_SECTORS
                         \/ offline_uncorrectable_sectors.n >= CDI_MAXIMUM_UNCORRECTABLE_ERRORS
                 failed == ~device_smart_status("SCSI", h) \/ over
             IN  ProbedDevice(name, "SCSI", IF failed THEN "Fail" ELSE "Ready",
                              reallocated_sectors, ~failed)

\* one element of the scan command's "devices" array, with what
\* `smartctl --xall <name> --json=ov` does for that name:
\*   megaraid    the name starts with "/dev/bus"
\*   open_error  the element has an "open_error" key
\*   telemetry   "ok", "command_exception" (the command cannot be run),
\*               "invalid_json" (the output is not JSON), "no_protocol" (the
\*               JSON has no device.protocol), "capacity_string"
\*               (user_capacity.bytes is a string that is no number),
\*               "capacity_null" (user_capacity.bytes is null),
\*               "blocks_string" (user_capacity.blocks or a block size is a
\*               string that is no number) or "no_namespaces" (an NVMe JSON
\*               without user_capacity or nvme_namespaces)
\*   health      what the JSON says of the device's health, see HealthJson
ScanEntry(name, protocol, megaraid, open_error, telemetry) ==
    [name |-> name, protocol |-> protocol, megaraid |-> megaraid,
     open_error |-> open_error, telemetry |-> telemetry, health |-> GoodHealth]

DeviceDict(name, protocol) == [kind |-> "device", dut |-> name, transport_protocol |-> protocol]

Raise(exception) == [kind |-> "raise", dut |-> exception, transport_protocol |-> ""]

FalseResult == [kind |-> "false", dut |-> "", transport_protocol |-> ""]

\* Smartctl.get_all_as_json: Command.run raises CommandException, json.loads
\* raises JSONDecodeError
get_all_as_json(entry) ==
    IF entry.telemetry = "command_exception" THEN Raise("CommandException")
    ELSE IF entry.telemetry = "invalid_json" THEN Raise("JSONDecodeError")
    ELSE DeviceDict(entry.name, entry.protocol)

\* Device.determine_transport_protocol: protocol_map.get(protocol, "Unknown")
determine_transport_protocol(protocol) ==
    IF protocol \in {"ATA", "FusionIO", "NVMe", "SCSI", "SD", "USB"} THEN protocol ELSE "Unknown"

\* Device.initialize: the JSON, then smartctl_json["device"]["protocol"], then
\* the protocol class with its int() calls: ATAProtocol and NVMeProtocol
\* call int() on user_capacity.bytes, SCSIProtocol takes 0 for bytes that are
\* no integer, and the three call int() on the block count and sizes;
\* NVMeProtocol calls Command.execute, which Command does not have, when it
\* looks for the capacity or the namespaces elsewhere
initialize(entry) ==
    LET smartctl_json == get_all_as_json(entry)
    IN  IF smartctl_json.kind = "raise" THEN smartctl_json
        ELSE IF entry.telemetry = "no_protocol" THEN Raise("KeyError")
        ELSE IF entry.telemetry = "capacity_string" /\ entry.protocol \in {"ATA", "NVMe"}
             THEN Raise("ValueError")
        ELSE IF entry.telemetry = "capacity_null" /\ entry.protocol \in {"ATA", "NVMe"}
             THEN Raise("TypeError")
        ELSE IF entry.telemetry = "blocks_string" /\ entry.protocol \in {"ATA", "NVMe", "SCSI"}
             THEN Raise("ValueError")
        ELSE IF entry.telemetry = "no_namespaces" /\ entry.protocol = "NVMe"
             THEN Raise("AttributeError")
        ELSE IF entry.protocol = "ATA" THEN ATAProtocol(entry.name, entry.health)
        ELSE IF entry.protocol = "NVMe" THEN NVMeProtocol(entry.name, entry.health)
        ELSE IF entry.protocol = "SCSI" THEN SCSIProtocol(entry.name, entry.health)
        ELSE DeviceDict(entry.name, determine_transport_protocol(entry.protocol))

\* Devices.analyse_device: only CommandException becomes False
analyse_device(entry) ==
    LET dev == initialize(entry)
    IN  IF dev.kind = "raise" /\ dev.dut = "CommandException" THEN FalseResult ELSE dev

\* a filter that knows only the ATA flag
IgnoredAtaOnly(entry, ign) ==
    entry.protocol = "ATA" /\ ign.ata

\* the ignore flag of the entry's protocol
Ignored(entry, ign) ==
    \/ entry.protocol = "ATA" /\ ign.ata
    \/ entry.protocol = "NVMe" /\ ign.nvme
    \/ entry.protocol = "SCSI" /\ ign.scsi

Pending == [kind |-> "pending", dut |-> "", transport_protocol |-> ""]

Cancelled == [kind |-> "cancelled", dut |-> "", transport_protocol |-> ""]

\* a call of analyse_device that a worker thread has begun and not finished
Running == [kind |-> "running", dut |-> "", transport_protocol |-> ""]

\* Devices.__init__ runs the scan command and decodes its output
ScanDevicesRun ==
    /\ dpc = "idle"
    /\ scanned' = <<>> /\ failures' = <<>> /\ analysed' = <<>>
    /\ di' = 1
    /\ IF scan_cmd = "fails" THEN dpc' = "raised" /\ dexc' = "DevicesException"
       ELSE IF scan_cmd = "bad_json" THEN dpc' = "raised" /\ dexc' = "JSONDecodeError"
       ELSE dpc' = "scanning" /\ dexc' = dexc
    /\ UNCHANGED <<scan_cmd, scan_output, ignore, tasks, ci>>
    /\ UNCHANGED <<device, result, devices, graded, bpc, candidates, scan_env, spc, si>>
    /\ UNCHANGED guiVars

\* one turn of the loop of Devices.scan_devices
ScanDevicesEntry ==
    /\ dpc = "scanning"
    /\ di <= Len(scan_output)
    /\ LET entry == scan_output[di]
       IN  IF entry.open_error
           THEN failures' = Append(failures, entry) /\ scanned' = scanned
           ELSE IF entry.megaraid \/ Ignored(entry, ignore)
                THEN UNCHANGED <<failures, scanned>>
                ELSE scanned' = Append(scanned, entry) /\ failures' = failures
    /\ di' = di + 1
    /\ UNCHANGED <<scan_cmd, scan_output, ignore, analysed, tasks, dpc, dexc, ci>>
    /\ UNCHANGED <<device, result, devices, graded, bpc, candidates, scan_env, spc, si>>
    /\ UNCHANGED guiVars

\* Devices.analyse_devices as far as the call of map: the list is reset and
\* the pool is created, with no future in it
AnalyseDevicesEnter ==
    /\ dpc = "scanning"
    /\ di > Len(scan_output)
    /\ analysed' = <<>>
    /\ tasks' = <<>>
    /\ ci' = 0
    /\ dpc' = "analysing"
    /\ UNCHANGED <<scan_cmd, scan_output, ignore, scanned, failures, dexc, di>>
    /\ UNCHANGED <<device, result, devices, graded, bpc, candidates, scan_env, spc, si>>
    /\ UNCHANGED guiVars

\* every name has its future: map has built its list and handed out the
\* result iterator, which list() runs
AllSubmitted == Len(tasks) = Len(scanned)

\* Executor.map calls submit() for one name, in the order of scanned: the
\* future is appended to the list of map and its call is queued for the
\* workers, which take and finish the calls already queued between one
\* submit() and the next
AnalyseDevicesSubmit ==
    /\ dpc = "analysing"
    /\ Len(tasks) < Len(scanned)
    /\ tasks' = Append(tasks, Pending)
    /\ ci' = Len(tasks) + 1
    /\ UNCHANGED <<scan_cmd, scan_output, ignore, scanned, failures, analysed, dpc, dexc, di>>
    /\ UNCHANGED <<device, result, devices, graded, bpc, candidates, scan_env, spc, si>>
    /\ UNCHANGED guiVars

\* a worker thread of the pool takes one submitted call of analyse_device:
\* the probe of that name is in flight from here until AnalyseDeviceTask.
\* ThreadPoolExecutor() has min(32, cpu_count + 4) workers, no fewer than the
\* bounded runs have names, and no lock or per-name queue stands between the
\* pool and analyse_device
AnalyseDeviceStart(i) ==
    /\ dpc = "analysing"
    /\ tasks[i] = Pending
    /\ tasks' = [tasks EXCEPT ![i] = Running]
    /\ UNCHANGED <<scan_cmd, scan_output, ignore, scanned, failures, analysed, dpc, dexc, di, ci>>
    /\ UNCHANGED <<device, result, devices, graded, bpc, candidates, scan_env, spc, si>>
    /\ UNCHANGED guiVars

\* a collection in completion order: the result of the call that finishes is
\* put in the first slot still in flight
AnalyseDeviceTaskAsCompleted(i) ==
    /\ dpc = "analysing"
    /\ tasks[i] = Running
    /\ LET k == CHOOSE k \in 1..Len(tasks) :
                    tasks[k] = Running /\ \A j \in 1..(k - 1) : tasks[j] # Running
       IN  tasks' = [tasks EXCEPT ![k] = analyse_device(scanned[i])]
    /\ UNCHANGED <<scan_cmd, scan_output, ignore, scanned, failures, analysed, dpc, dexc, di, ci>>
    /\ UNCHANGED <<device, result, devices, graded, bpc, candidates, scan_env, spc, si>>
    /\ UNCHANGED guiVars

\* the worker thread finishes analyse_device for one name
AnalyseDeviceTask(i) ==
    /\ dpc = "analysing"
    /\ tasks[i] = Running
    /\ tasks' = [tasks EXCEPT ![i] = analyse_device(scanned[i])]
    /\ UNCHANGED <<scan_cmd, scan_output, ignore, scanned, failures, analysed, dpc, dexc, di, ci>>
    /\ UNCHANGED <<device, result, devices, graded, bpc, candidates, scan_env, spc, si>>
    /\ UNCHANGED guiVars

\* the first future, in submission order, that holds an exception
FirstRaise(i) ==
    /\ tasks[i].kind = "raise"
    /\ \A j \in 1..(i - 1) : tasks[j].kind \in {"device", "false"}

\* every name is submitted and list(map(...)) meets a future with an
\* exception: the finally clause of the result iterator calls cancel() on
\* the futures still in its list, one
\* call a step, the last submitted first.  cancel() turns a future not yet
\* run into a cancelled one and leaves a future in flight or done as it is;
\* between two calls the workers go on taking futures not yet cancelled
AnalyseDevicesCancel ==
    /\ dpc = "analysing"
    /\ AllSubmitted
    /\ \E i \in 1..Len(tasks) : FirstRaise(i) /\ ci > i
    /\ tasks' = [tasks EXCEPT ![ci] = IF @ = Pending THEN Cancelled ELSE @]
    /\ ci' = ci - 1
    /\ UNCHANGED <<scan_cmd, scan_output, ignore, scanned, failures, analysed, dpc, dexc, di>>
    /\ UNCHANGED <<device, result, devices, graded, bpc, candidates, scan_env, spc, si>>
    /\ UNCHANGED guiVars

\* the result iterator has called cancel() on every future left in its
\* list, the with block has waited for the calls in flight
\* (shutdown(wait=True)), and the exception leaves Devices.__init__
AnalyseDevicesRaise ==
    /\ dpc = "analysing"
    /\ AllSubmitted
    /\ \A j \in 1..Len(tasks) : tasks[j] # Running
    /\ \E i \in 1..Len(tasks) :
        /\ FirstRaise(i)
        /\ ci = i
        /\ dexc' = tasks[i].dut
    /\ tasks' = tasks
    /\ dpc' = "raised"
    /\ UNCHANGED <<scan_cmd, scan_output, ignore, scanned, failures, analysed, di, ci>>
    /\ UNCHANGED <<device, result, devices, graded, bpc, candidates, scan_env, spc, si>>
    /\ UNCHANGED guiVars

\* list(map(...)) has every result, in submission order
AnalyseDevicesReturn ==
    /\ dpc = "analysing"
    /\ AllSubmitted
    /\ \A i \in 1..Len(tasks) : tasks[i].kind \in {"device", "false"}
    /\ analysed' = tasks
    /\ dpc' = "constructed"
    /\ UNCHANGED <<scan_cmd, scan_output, ignore, scanned, failures, tasks, dexc, di, ci>>
    /\ UNCHANGED <<device, result, devices, graded, bpc, candidates, scan_env, spc, si>>
    /\ UNCHANGED guiVars

NextDevices ==
    \/ ScanDevicesRun
    \/ ScanDevicesEntry
    \/ AnalyseDevicesEnter
    \/ AnalyseDevicesSubmit
    \/ \E i \in 1..Len(tasks) : AnalyseDeviceStart(i)
    \/ \E i \in 1..Len(tasks) : AnalyseDeviceTask(i)
    \/ AnalyseDevicesCancel
    \/ AnalyseDevicesRaise
    \/ AnalyseDevicesReturn

MaxScan == 3

DeviceNames == <<"/dev/sda", "/dev/sdb", "/dev/sdc", "/dev/sdd", "/dev/sde">>

ScanEntryKinds ==
    {ScanEntry("", "ATA", FALSE, FALSE, "ok"),
     ScanEntry("", "NVMe", FALSE, FALSE, "ok"),
     ScanEntry("", "ATA", FALSE, TRUE, "ok"),
     ScanEntry("", "SCSI", TRUE, FALSE, "ok"),
     ScanEntry("", "ATA", FALSE, FALSE, "command_exception"),
     ScanEntry("", "ATA", FALSE, FALSE, "invalid_json"),
     ScanEntry("", "SCSI", FALSE, FALSE, "no_protocol"),
     ScanEntry("", "SCSI", FALSE, FALSE, "blocks_string"),
     ScanEntry("", "ATA", FALSE, FALSE, "capacity_null"),
     ScanEntry("", "SAT", FALSE, FALSE, "ok"),
     ScanEntry("", "NVMe", FALSE, FALSE, "no_namespaces"),
     [ScanEntry("", "ATA", FALSE, FALSE, "ok") EXCEPT
         !.health = HealthJson(TRUE, <<Attr(5, "Reallocated_Sector_Ct", Num(100), Num(10))>>,
                               Absent, Absent)],
     [ScanEntry("", "SCSI", FALSE, FALSE, "ok") EXCEPT
         !.health = HealthJson(TRUE, <<>>, Num(20), Num(0))]}

NameAt(kinds) == [i \in 1..Len(kinds) |-> [kinds[i] EXCEPT !.name = DeviceNames[i]]]

IgnoreChoices ==
    {NoIgnore,
     [ata |-> TRUE, nvme |-> FALSE, scsi |-> FALSE],
     [ata |-> FALSE, nvme |-> TRUE, scsi |-> TRUE]}

InitDevices ==
    /\ GuiIdle
    /\ GradeIdle
    /\ BatchIdle
    /\ ScanIdle
    /\ scan_cmd \in {"ok", "fails", "bad_json"}
    /\ scan_output \in {NameAt(k) : k \in SeqsUpTo(ScanEntryKinds, MaxScan)}
    /\ ignore \in IgnoreChoices
    /\ scanned = <<>> /\ failures = <<>> /\ analysed = <<>> /\ tasks = <<>>
    /\ dpc = "idle" /\ dexc = "none" /\ di = 1 /\ ci = 0

SpecDevices == InitDevices /\ [][NextDevices]_vars

\* Devices.__init__ has ended, by returning or by raising
DevicesEnded == dpc \in {"constructed", "raised"}

\* the entries the scan loop does not drop by design (MegaRAID bus, ignore flag)
Candidates == {i \in 1..Len(scan_output) :
                   scan_output[i].open_error
                   \/ ~(scan_output[i].megaraid \/ Ignored(scan_output[i], ignore))}

\* the probe of the entry fails: open error, command failure, unparseable telemetry
ProbeFailed(entry) ==
    entry.open_error \/ entry.telemetry \in {"command_exception", "invalid_json"}

\* C6: after a scan, every candidate is in the results or in the failures, so
\* the two lists together have as many elements as there are candidates.
C6_EveryCandidateAccounted ==
    (DevicesEnded /\ scan_cmd = "ok") =>
        Len(analysed) + Len(failures) = Cardinality(Candidates)

\* C7: a device whose probe fails is in the failures list and the results
\* list holds only successfully probed devices.
C7_FailedProbeInFailures ==
    dpc = "constructed" =>
        /\ \A i \in Candidates :
            ProbeFailed(scan_output[i]) =>
                \E j \in 1..Len(failures) : failures[j].name = scan_output[i].name
        /\ \A j \in 1..Len(analysed) : analysed[j].kind = "device"

\* C8: no failure of one device's probe is raised to the caller of Devices.
C8_NothingRaisedToCaller ==
    scan_cmd = "ok" => dpc # "raised"

-----------------------------------------------------------------------------
(* Fields that are not reported (SpecGrade) *)

\* what a grading call decided: status, failure reason, flag reason
Outcome(r) == <<r.status, r.failure_reason, r.flag_reason>>

\* the graded fields of the NVMe health log with the failure reason of each
NvmeGradedFields ==
    {<<"percentage_used", "percent_used">>, <<"available_spare", "available_spare">>,
     <<"media_errors", "media_errors">>, <<"critical_comp_time", "critical_temp">>}

\* the device with field f taken out of the health log
WithoutNvmeField(d, f) ==
    IF f = "available_spare"
    THEN [d EXCEPT !.nvme_data.log.available_spare = Absent, !.nvme_data.log.avail_spare = Absent]
    ELSE [d EXCEPT !.nvme_data.log[f] = Absent]

\* the graded fields of the SMART attribute table: failure reason, ids and
\* names of the attributes read, and whether the raw value is the one read
SataGradedFields ==
    {[reason |-> "pending_sectors", ids |-> {197}, names |-> {"Current_Pending_Sector"}],
     [reason |-> "reallocated_sectors", ids |-> {5}, names |-> {"Reallocated_Sector_Ct"}],
     [reason |-> "percent_used", ids |-> {231}, names |-> {"SSD_Life_Left", "Percent_Lifetime_Used"}],
     [reason |-> "available_spare", ids |-> {173}, names |-> {"Available_Reservd_Space"}]}

\* the value the SATA/SAS rule of the field reads from the table, Absent when
\* the table has no such attribute
SataRuleValue(d, fld) ==
    LET byId == _get_smart_attribute(d.smart_data, CHOOSE i \in fld.ids : TRUE,
                                     CHOOSE n \in fld.names : n # "Percent_Lifetime_Used")
        alt == _get_smart_attribute(d.smart_data, -1, "Percent_Lifetime_Used")
    IN  IF fld.reason \in {"pending_sectors", "reallocated_sectors"}
        THEN (IF byId.none THEN Absent ELSE byId.raw)
        ELSE IF fld.reason = "available_spare"
        THEN (IF byId.none THEN Absent ELSE byId.value)
        ELSE IF ~byId.none THEN byId.value
        ELSE IF ~alt.none THEN alt.raw
        ELSE Absent

\* the device with the attributes of the field taken out of the table
WithoutSataField(d, fld) ==
    [d EXCEPT !.smart_data.table =
        SelectSeq(@, LAMBDA a : a.id \notin fld.ids /\ a.name \notin fld.names)]

\* C11: a graded field that is missing or unparseable never fails the device
\* for that field and never makes it Error: the device is graded exactly as
\* it is without that field.
C11_NotReportedFieldSkipped ==
    (Graded /\ HasTelemetry(device)) =>
        /\ (device.protocol = "nvme" /\ device.nvme_data.tag = "dict"
                /\ device.nvme_data.log_kind = "dict") =>
            \A f \in NvmeGradedFields :
                ~IsNum(NvmeRuleValue(device, f[1])) =>
                    /\ ~(result.status = "fail" /\ result.failure_reason = f[2])
                    /\ Outcome(result) = Outcome(_grade_device(WithoutNvmeField(device, f[1])))
        /\ (IsAtaScsi(device) /\ SmartTruthy(device.smart_data)) =>
            \A fld \in SataGradedFields :
                ~IsNum(SataRuleValue(device, fld)) =>
                    /\ ~(result.status = "fail" /\ result.failure_reason = fld.reason)
                    /\ Outcome(result) = Outcome(_grade_device(WithoutSataField(device, fld)))

-----------------------------------------------------------------------------
(* Absence and zero (SpecGrade) *)

\* the attributes the SATA/SAS grader looks up on the device, by id and name:
\* a lookup is made when no earlier rule has returned, and
\* Percent_Lifetime_Used is looked up when there is no SSD_Life_Left
SataLookups(d) ==
    {<<197, "Current_Pending_Sector">>}
    \cup (IF SataPendingSectors(d) > PENDING_SECTORS_THRESHOLD THEN {}
          ELSE {<<5, "Reallocated_Sector_Ct">>}
               \cup (IF SataReallocatedSectors(d) > REALLOCATED_SECTORS_THRESHOLD THEN {}
                     ELSE {<<231, "SSD_Life_Left">>}
                          \cup (IF _get_smart_attribute(d.smart_data, 231, "SSD_Life_Left").none
                                THEN {<<-1, "Percent_Lifetime_Used">>} ELSE {})
                          \cup (IF SataPercentageUsed(d) > PERCENT_USED_THRESHOLD THEN {}
                                ELSE {<<173, "Available_Reservd_Space">>})))

\* C12: the value extracted for a missing or unparseable attribute differs
\* from the value extracted for the attribute present with raw value 0 (for
\* normalized values: present with value 100).
C12_AbsenceIsNotZero ==
    (Graded /\ IsAtaScsi(device) /\ SmartTruthy(device.smart_data)) =>
        \A l \in SataLookups(device) :
            LET a == _get_smart_attribute(device.smart_data, l[1], l[2])
                zero == Attr(l[1], l[2], Num(100), Num(0))
            IN  /\ (a.none \/ ~IsNum(a.raw)) =>
                       _get_attribute_raw_value(a) # _get_attribute_raw_value(zero)
                /\ (a.none \/ ~IsNum(a.value)) =>
                       _get_attribute_value(a) # _get_attribute_value(zero)
                /\ (a.none /\ l[1] > 0) =>
                       get_smart_attribute_by_id(device.smart_data.has_attrs,
                                                 device.smart_data.table, l[1])
                           # get_smart_attribute_by_id(TRUE, <<zero>>, l[1])

-----------------------------------------------------------------------------
(* Workload and flags (SpecGrade) *)

\* power_on_hours is not reported, unparseable, zero or negative
PowerOnHoursUnusable(d) == ~IsNum(PowerOnHours(d)) \/ PowerOnHours(d).n <= 0

\* C13: with power_on_hours not reported, unparseable, zero or negative the
\* workload is undetermined (None, not zero; no workload at all when a byte
\* count that is null makes the computation raise) and the device is never
\* flagged HeavyUse, for every protocol and whatever the byte counts.
C13_NoHoursNoHeavyUse ==
    (Graded /\ PowerOnHoursUnusable(device)) =>
        /\ LET w == _calculate_workload(device)
           IN  w.kind = "raise" \/ w.workload = NoWorkload
        /\ result.flag_reason # "heavy_use"
        /\ result.workload_tb_per_year = NoWorkload

\* C13 witness: an NVMe device with byte counts worth more than 550 TB/year
\* in half a year and negative power-on hours, which no rule fails or flags
C13_Witness ==
    /\ Graded /\ device.protocol = "nvme"
    /\ NvmeField(device, "data_units_read") = Num(590558003)
    /\ NvmeField(device, "power_on_hours") = Num(-4383)
    /\ result = PassResult(device)

\* the available spare the NVMe rule reads, as a number
NvmeSpareIs(d, n) == NvmeRuleValue(d, "available_spare") = Num(n)

\* the grader of the device's protocol reaches the available-spare rule: its
\* data is not None and no rule before the spare rule returns or raises
NoRuleBeforeSpare(d) ==
    IF d.protocol = "nvme"
    THEN /\ d.nvme_data.tag = "dict"
         /\ NvmeOver(d, "percentage_used", 100) = "False"
    ELSE /\ d.smart_data.tag # "none"
         /\ SataPendingSectors(d) <= 10 /\ SataReallocatedSectors(d) <= 10
         /\ SataPercentageUsed(d) <= 100

\* no Fail rule after the available-spare rule fires: the media-errors rule
\* does not, and the critical-temperature rule, evaluated when the
\* media-errors comparison gave False, does not either
NoFailRuleAfterSpare(d) ==
    d.protocol = "nvme" =>
        /\ NvmeOver(d, "media_errors", 10) # "True"
        /\ NvmeOver(d, "media_errors", 10) = "False" =>
               NvmeOver(d, "critical_comp_time", 0) # "True"

\* the available spare of the device is the number n
SpareIs(d, n) ==
    IF d.protocol = "nvme" THEN NvmeSpareIs(d, n)
    ELSE SataRuleValue(d, CHOOSE fld \in SataGradedFields : fld.reason = "available_spare") = Num(n)

\* C14: when no earlier rule fires, available spare 97 is Fail/AvailableSpare
\* and available spare 98 does not fail: the device ends as Pass unless a
\* later rule fails it; for NVMe and for ATA/SCSI devices.
C14_SpareBoundary ==
    (/\ Graded /\ HasTelemetry(device) /\ ~FailedSelfTestLogged(device)
     /\ device.protocol \in {"nvme", "sata", "sas"} /\ NoRuleBeforeSpare(device)) =>
        /\ SpareIs(device, 97) => result = FailResult(device, "available_spare")
        /\ SpareIs(device, 98) =>
            /\ result.failure_reason # "available_spare"
            /\ NoFailRuleAfterSpare(device) => result.status = "pass"

-----------------------------------------------------------------------------
(* Thresholds of the protocol adapters (SpecDevices) *)

\* the count the adapter of the entry's protocol reads for a field, -1 or 0
\* being what the adapter takes when the JSON does not report it
AdapterCounts(entry) ==
    IF entry.protocol = "ATA"
    THEN {get_smart_attribute_by_id(TRUE, entry.health.table, id) : id \in {5, 197, 198}}
    ELSE IF entry.protocol = "SCSI"
    THEN {Get(entry.health.grown_defects, Num(-1)), Get(entry.health.uncorrected, Num(-1))}
    ELSE {}

\* C15: count thresholds are strict: a device whose pending, reallocated and
\* uncorrectable sector counts are at most their maximum (10) does not fail
\* and is not marked failed or uncertified; only counts over the maximum fail.
C15_ThresholdsAreStrict ==
    dpc = "constructed" =>
        \A j \in 1..Len(analysed) :
            (/\ analysed[j].kind = "device"
             /\ scanned[j].health.smart_passed
             /\ \A c \in AdapterCounts(scanned[j]) : IsNum(c) /\ c.n <= 10) =>
                /\ analysed[j].state # "Fail"
                /\ analysed[j].cdi_grade # "F"
                /\ analysed[j].cdi_certified

-----------------------------------------------------------------------------
(* SCSI grown defects (SpecGrade) *)

\* the grown defect count a SCSI device reports, Absent when it reports none
GrownDefects(d) == IF d.smart_data.tag = "dict" THEN d.smart_data.grown_defects ELSE Absent

\* C16: a SCSI/SAS device whose grown defect count exceeds 10, and on which
\* no earlier rule fires, is graded Fail/ReallocatedSectors.
C16_GrownDefectsFail ==
    (/\ Graded /\ device.protocol = "sas" /\ HasTelemetry(device)
     /\ ~FailedSelfTestLogged(device)
     /\ SataPendingSectors(device) <= 10
     /\ IsNum(GrownDefects(device)) /\ GrownDefects(device).n > 10) =>
        result = FailResult(device, "reallocated_sectors")

-----------------------------------------------------------------------------
(* Flags (SpecGrade) *)

\* no Error rule and no Fail rule of _grade_device and its graders fires on
\* the device
NoErrorOrFailRule(d) ==
    /\ HasTelemetry(d) /\ ~_has_failed_self_test(d)
    /\ IF d.protocol = "nvme"
       THEN /\ d.nvme_data.tag = "dict"
            /\ NvmeOver(d, "percentage_used", 100) = "False"
            /\ NvmeSpareLow(d) = "False"
            /\ NvmeOver(d, "media_errors", 10) = "False"
            /\ NvmeOver(d, "critical_comp_time", 0) = "False"
            /\ NvmeOver(d, "warning_temp_time", 60) # "TypeError"
            /\ NvmeOver(d, "warning_temp_time", 60) = "False" =>
                   _calculate_workload(d).kind = "tuple"
       ELSE /\ d.smart_data.tag # "none"
            /\ SataPendingSectors(d) <= 10 /\ SataReallocatedSectors(d) <= 10
            /\ SataPercentageUsed(d) <= 100 /\ SataAvailableSpare(d) > 97

\* the minutes over the warning temperature: the health log's
\* warning_temp_time; the SMART attribute table has no such field
WarningTempOver(d) == d.protocol = "nvme" /\ NvmeOver(d, "warning_temp_time", 60) = "True"

\* the workload is determined and over 550 TB/year
HeavyWorkload(d) ==
    LET w == _calculate_workload(d)
    IN  w.kind = "tuple" /\ w.workload.tag # "none" /\ WorkloadGT(w.workload, 550)

\* C17: when no Error or Fail rule fired, warning_temp_minutes > 60 gives
\* Pass/TempWarning (also when the workload exceeds 550 TB/year), else a
\* determined workload > 550 TB/year gives Pass/HeavyUse, else plain Pass; for
\* every protocol.
C17_FlagRules ==
    (/\ Graded /\ device.protocol \in {"nvme", "sata", "sas"}
     /\ ~FailedSelfTestLogged(device) /\ NoErrorOrFailRule(device)) =>
        /\ result.status = "pass" /\ result.failure_reason = "none"
        /\ result.flag_reason =
               IF WarningTempOver(device) THEN "temp_warning"
               ELSE IF HeavyWorkload(device) THEN "heavy_use"
               ELSE "none"

-----------------------------------------------------------------------------
\* The worker pool of Devices.analyse_devices, with scan outputs that may list
\* one device path more than once (smartctl lists one path once per drive
\* behind a RAID controller) and with scan_devices and analyse_devices called
\* again on the same object.

MaxPoolScan == 3

MaxScanned == 5

PoolNames == {"/dev/sda", "/dev/sdb"}

PoolEntryKinds ==
    {ScanEntry("", "ATA", FALSE, FALSE, "ok"),
     ScanEntry("", "NVMe", FALSE, FALSE, "ok"),
     ScanEntry("", "ATA", FALSE, FALSE, "command_exception"),
     ScanEntry("", "ATA", FALSE, FALSE, "invalid_json")}

PoolEntries == {[k EXCEPT !.name = n] : k \in PoolEntryKinds, n \in PoolNames}

\* scan_devices is called again on a constructed Devices object: the scan
\* command runs again and the loop appends to the lists the object already
\* holds, which only __init__ creates
ScanDevicesAgain ==
    /\ dpc = "constructed"
    /\ Len(scanned) + Len(scan_output) <= MaxScanned
    /\ di' = 1
    /\ dpc' = "scanning"
    /\ UNCHANGED <<scan_cmd, scan_output, ignore, scanned, failures, analysed, tasks, dexc, ci>>
    /\ UNCHANGED <<device, result, devices, graded, bpc, candidates, scan_env, spc, si>>
    /\ UNCHANGED guiVars

NextPool ==
    \/ NextDevices
    \/ ScanDevicesAgain

InitPool ==
    /\ GuiIdle
    /\ GradeIdle
    /\ BatchIdle
    /\ ScanIdle
    /\ scan_cmd = "ok"
    /\ scan_output \in SeqsUpTo(PoolEntries, MaxPoolScan)
    /\ ignore \in IgnoreChoices
    /\ scanned = <<>> /\ failures = <<>> /\ analysed = <<>> /\ tasks = <<>>
    /\ dpc = "idle" /\ dexc = "none" /\ di = 1 /\ ci = 0

SpecPool == InitPool /\ [][NextPool]_vars

\* the probe of the i-th scanned entry is in flight
InFlight(i) == i \in 1..Len(tasks) /\ tasks[i] = Running

\* C18: at no time are two probes of the same device path in flight at once,
\* whatever the scan output lists and however often scan_devices is called.
\* The code submits every scanned name to the pool with nothing that keeps
\* two calls for one path apart, so this is violated.
C18_OneProbePerPath ==
    \A i, j \in 1..Len(tasks) :
        (i # j /\ InFlight(i) /\ InFlight(j)) => scanned[i].name # scanned[j].name

-----------------------------------------------------------------------------
\* Ignore filters.

\* the entry's protocol is one the caller asked Devices to ignore
FilterEnabled(entry) ==
    \/ entry.protocol = "ATA" /\ ignore.ata
    \/ entry.protocol = "NVMe" /\ ignore.nvme
    \/ entry.protocol = "SCSI" /\ ignore.scsi

\* C19: a device whose protocol matches an enabled ignore filter is dropped
\* before any probe: it is never in scanned, no call of analyse_device is
\* submitted, in flight or finished for it, and no result carries its name,
\* in every state of every interleaving of the other probes.
C19_IgnoredNeverProbed ==
    \A k \in 1..Len(scan_output) :
        FilterEnabled(scan_output[k]) =>
            /\ \A i \in 1..Len(scanned) : scanned[i].name # scan_output[k].name
            /\ Len(tasks) <= Len(scanned)
            /\ \A i \in 1..Len(tasks) : tasks[i].dut # scan_output[k].name
            /\ \A i \in 1..Len(analysed) : analysed[i].dut # scan_output[k].name

\* a listed device matches an enabled filter while the probe of another
\* listed device is in flight and a third has given its result
C19_Witness ==
    /\ dpc = "analysing"
    /\ \E k \in 1..Len(scan_output) :
        /\ FilterEnabled(scan_output[k])
        /\ ~scan_output[k].open_error
        /\ ~scan_output[k].megaraid
    /\ \E i, j \in 1..Len(tasks) : tasks[i] = Running /\ tasks[j].kind = "device"

-----------------------------------------------------------------------------
\* Order of the results.

\* the call of analyse_device for the i-th scanned entry has finished
Finished(i) == i \in 1..Len(tasks) /\ tasks[i].kind \in {"device", "false", "raise"}

\* C20: results preserve discovery order. Whatever the order in which the
\* worker threads finish, the result held for index i is the outcome of
\* probing the i-th scanned entry, and once analyse_devices has returned the
\* results list has one element per scanned entry, the i-th being the outcome
\* of probing the i-th scanned entry.
C20_ResultsInDiscoveryOrder ==
    /\ \A i \in 1..Len(tasks) :
        Finished(i) => i <= Len(scanned) /\ tasks[i] = analyse_device(scanned[i])
    /\ dpc = "constructed" =>
        /\ Len(analysed) = Len(scanned)
        /\ \A i \in 1..Len(scanned) : analysed[i] = analyse_device(scanned[i])

\* the threads finish against discovery order: the probe of a later entry
\* has given its result while the probe of an earlier entry, whose outcome
\* is a different one, is still in flight
C20_Witness ==
    /\ dpc = "analysing"
    /\ \E i, j \in 1..Len(tasks) :
        /\ i < j
        /\ InFlight(i)
        /\ Finished(j)
        /\ tasks[j] # analyse_device(scanned[i])

-----------------------------------------------------------------------------
\* Shape of a grade result.

\* the members of FailureReason other than DATA_READ_ERROR
FailReasons ==
    {"failed_self_test", "pending_sectors", "reallocated_sectors", "percent_used",
     "available_spare", "media_errors", "critical_temp"}

\* the members of FlagReason
FlagReasons == {"heavy_use", "temp_warning"}

\* C21: every grade result is well formed: the status is Pass, Fail or Error;
\* the failure reason is DataReadError exactly when the status is Error; a
\* Fail carries one failure reason other than DataReadError and no flag; a
\* flag (HeavyUse or TempWarning) occurs only with Pass and no failure
\* reason; workload_tb_per_year is set only together with the flag HeavyUse.
C21_WellFormedResult ==
    Graded =>
        /\ result.status \in {"pass", "fail", "error"}
        /\ (result.failure_reason = "data_read_error") <=> (result.status = "error")
        /\ result.status = "fail" =>
            /\ result.failure_reason \in FailReasons
            /\ result.flag_reason = "none"
        /\ result.flag_reason # "none" =>
            /\ result.flag_reason \in FlagReasons
            /\ result.status = "pass"
            /\ result.failure_reason = "none"
        /\ result.workload_tb_per_year # NoWorkload => result.flag_reason = "heavy_use"

\* a device has been graded Pass with the flag HeavyUse and its workload
C21_Witness ==
    /\ Graded
    /\ result.status = "pass"
    /\ result.flag_reason = "heavy_use"
    /\ result.workload_tb_per_year.tag = "tb"

-----------------------------------------------------------------------------
\* Determinism of grading.

\* the two devices carry the same telemetry
SameTelemetry(a, b) ==
    /\ a.protocol = b.protocol
    /\ a.smart_data = b.smart_data
    /\ a.nvme_data = b.nvme_data

\* status, failure reason, flag reason and workload of a result
FullOutcome(r) == <<r.status, r.failure_reason, r.flag_reason, r.workload_tb_per_year>>

\* C22: grading is deterministic and stateless: two devices of a batch that
\* carry the same telemetry, be they one device listed twice or two devices
\* that differ in path, model and serial number, get the same status,
\* failure reason, flag reason and workload, wherever they stand in the
\* batch and whatever the other devices of the batch are.
C22_Deterministic ==
    \A i, j \in 1..Len(graded) :
        SameTelemetry(devices[i], devices[j]) => FullOutcome(graded[i]) = FullOutcome(graded[j])

\* a finished batch in which two devices that differ in path, model and
\* serial number carry the same telemetry, both were graded and not Error,
\* and a device graded Error stands between the two
C22_Witness ==
    /\ bpc = "done"
    /\ \E i, j, k \in 1..Len(graded) :
        /\ i < j /\ j < k
        /\ SameTelemetry(devices[i], devices[k])
        /\ devices[i].path # devices[k].path
        /\ devices[i].model # devices[k].model
        /\ devices[i].serial # devices[k].serial
        /\ graded[i].status # "error"
        /\ graded[k].status # "error"
        /\ graded[j].status = "error"

-----------------------------------------------------------------------------
\* Identity of the scanned devices.

\* C23: within the result of one scan no two devices share the same
\* (model, serial) pair, also when the identity fields cannot be read and
\* fall back to the defaults.  Both scans give every device without readable
\* identity the pair ("Unknown", "Unknown"), so this is violated.
C23_UniqueModelSerial ==
    \A i, j \in 1..Len(devices) :
        i # j => <<devices[i].model, devices[i].serial>> # <<devices[j].model, devices[j].serial>>

-----------------------------------------------------------------------------
\* SpecLookup: one call of GradingEngine._get_smart_attribute (the same loop
\* is ReportGenerator._get_sata_sas_helper).

MaxTable == 3

\* entries of attribute tables: Intel SSDs report Available_Reservd_Space
\* under id 170 and 232, other vendors use id 173 for a wear count
LookupAttrs ==
    {Attr(5, "Reallocated_Sector_Ct", Num(100), Num(15)),
     Attr(170, "Available_Reservd_Space", Num(100), Num(0)),
     Attr(173, "Wear_Leveling_Count", Num(90), Num(12)),
     Attr(173, "Available_Reservd_Space", Num(99), Num(0)),
     Attr(197, "Current_Pending_Sector", Num(100), Num(0))}

LookupInputs ==
    {SataWith("/dev/sda", t) : t \in SeqsUpTo(LookupAttrs, MaxTable)}
        \cup {StorageDevice("/dev/sda", "sata", EmptySmart, NoneData)}

\* <<attr_id, attr_name>> as the graders and the report pass them
LookupRequests ==
    {<<173, "Available_Reservd_Space">>, <<5, "Reallocated_Sector_Ct">>,
     <<197, "Current_Pending_Sector">>, <<-1, "Percent_Lifetime_Used">>}

LookupResult(attr_id, attr_name, attribute) ==
    [status |-> "lookup", attr_id |-> attr_id, attr_name |-> attr_name, attribute |-> attribute]

InitLookup ==
    /\ GuiIdle
    /\ device \in LookupInputs
    /\ result = NoResult
    /\ BatchIdle
    /\ ScanIdle
    /\ DevicesIdle

Lookup ==
    /\ result = NoResult
    /\ \E req \in LookupRequests :
        result' = LookupResult(req[1], req[2],
                               _get_smart_attribute(device.smart_data, req[1], req[2]))
    /\ UNCHANGED <<device, devices, graded, bpc, candidates, scan_env, spc, si>>
    /\ UNCHANGED devicesVars
    /\ UNCHANGED guiVars

NextLookup == Lookup

SpecLookup == InitLookup /\ [][NextLookup]_vars

\* positions of the table whose id is the requested one / whose name is the
\* fallback name
IdMatches(table, attr_id) == {i \in 1..Len(table) : table[i].id = attr_id}
NameMatches(table, attr_name) == {i \in 1..Len(table) : table[i].name = attr_name}

\* C24: the lookup by id with a fallback name prefers the id match: when the
\* table has an entry with the requested id, an entry with that id is
\* returned whatever the order of the table; an entry matching only by name
\* is returned only when no entry has the requested id.  The code returns
\* the first entry that matches by id or by name, so this is violated.
C24_IdMatchPreferred ==
    result.status = "lookup" =>
        LET table == device.smart_data.table
            ids == IdMatches(table, result.attr_id)
            names == NameMatches(table, result.attr_name)
        IN  /\ ids # {} => (~result.attribute.none /\ result.attribute.id = result.attr_id)
            /\ (ids = {} /\ names # {}) =>
                   (~result.attribute.none /\ result.attribute.name = result.attr_name)
            /\ (ids = {} /\ names = {}) => result.attribute.none

-----------------------------------------------------------------------------
\* The workload figure.

\* <<quotient, remainder>> of x * 2^k by f, by long division (x * 2^k / f < 2^31)
RECURSIVE ScaleDiv(_, _, _)
ScaleDiv(x, f, k) ==
    IF k = 0 THEN <<x \div f, x % f>>
    ELSE LET p == ScaleDiv(x, f, k - 1)
         IN  <<2 * p[1] + ((2 * p[2]) \div f), (2 * p[2]) % f>>

\* host reads plus host writes, in the unit the telemetry counts them in
\* (NVMe data units of 512 * 1000 bytes, or MiB), and that unit as
\* unit * 4383 / 2^12
HostUnits(d) == HostCounters(d)[1].n + HostCounters(d)[2].n

HostUnitFactor(d) ==
    IF NvmeTruthy(d.nvme_data) /\ d.nvme_data.log_kind = "dict"
    THEN NvmeUnitFactor ELSE MibUnitFactor

\* (R + W) * 8766 > 550 * 2^40 * h, with R + W = units * unit bytes: the
\* units exceed the whole part of 550 * 2^27 * h / (unit * 4383 / 2^12)
OverThreshold(d) ==
    HostUnits(d) > ScaleDiv(550 * PowerOnHours(d).n, HostUnitFactor(d), 27)[1]

\* C25: for a device with positive power-on hours h and host byte counts R
\* and W on which no earlier rule fires, the result is flagged HeavyUse
\* exactly when (R + W) * 8766 > 550 * 2^40 * h, and the flagged result
\* carries the workload (R + W) / 2^40 / (h / 8766) TB/year; NVMe byte counts
\* are data units * 512 * 1000.
C25_HeavyUseExactly ==
    (/\ Graded /\ device.protocol \in {"nvme", "sata", "sas"}
     /\ ~FailedSelfTestLogged(device)
     /\ NoErrorOrFailRule(device) /\ ~WarningTempOver(device)
     /\ ~PowerOnHoursUnusable(device)) =>
        /\ (result.flag_reason = "heavy_use") <=> OverThreshold(device)
        /\ OverThreshold(device) =>
               result.workload_tb_per_year
                   = Workload(HostUnits(device), HostUnitFactor(device), PowerOnHours(device).n)

-----------------------------------------------------------------------------
(* The GUI (CDI.py) and its Grading threads (classes/threads.py).  The      *)
(* Device a thread probes is its environment: what each call on it gives    *)
(* (the protocol, the SMART status, the self-test log, a return code, a     *)
(* sector count) is an input of the step that makes the call.               *)

MaxThreads == 2

\* the rows of the devices table, in table order
TableRows == <<"/dev/sda", "/dev/sdb">>

\* the rows the operator may have selected, in selection order
Selections == {<<"/dev/sda">>, <<"/dev/sdb">>, <<"/dev/sda", "/dev/sdb">>}

GuiProtocols == {"ATA", "NVMe", "SCSI"}

SelfTestLogs == {"No Self Tests Logged", "passed", "failed"}

SectorCounts == {Absent, Num(10), Num(11)}

\* Grading.__init__: grade "U", not certified, not cancelled, nothing reported
Grading(dut) ==
    [dut |-> dut, pc |-> "started", protocol |-> "", grade |-> "U",
     is_certified_for_reuse |-> FALSE, result |-> "", exception |-> "none",
     emitted |-> 0, completed |-> {}, failed |-> {}, logs_reported |-> FALSE]

ThreadIds == 1..Len(threads)

\* QThread.isRunning: run() has been entered or is about to be, and has not ended
IsRunning(t) == threads[t].pc # "ended"

\* a check returned normally: the schedule goes on with `next`
CheckPassed(t, check, next) ==
    threads' = [threads EXCEPT ![t].pc = next,
                               ![t].completed = @ \cup {check}]

\* a check failed: grade "F", not certified, report status "Fail", then raise
CheckFailed(t, check, exception) ==
    threads' = [threads EXCEPT ![t].pc = "raised",
                               ![t].grade = "F",
                               ![t].is_certified_for_reuse = FALSE,
                               ![t].result = "Fail",
                               ![t].exception = exception,
                               ![t].failed = @ \cup {check}]

\* an exception leaves a step of run() without any field being set
Throws(t, exception) ==
    threads' = [threads EXCEPT ![t].pc = "raised", ![t].exception = exception]

\* what running a command (smartctl, hdparm, sg_start) comes to: Command.run
\* returns, or raises CommandException where the command cannot be run
CommandOutcomes == {"ok", "CommandException"}

GuiUnchanged ==
    /\ UNCHANGED <<device, result, devices, graded, bpc, candidates, scan_env, spc, si>>
    /\ UNCHANGED devicesVars

ThreadStep == GuiUnchanged /\ UNCHANGED <<control_list, signals, native_finished, job_loop>>

\* process_all_devices / process_selected_devices is called and its prompt
\* accepted: the handler has the rows of the table, or the selected ones,
\* and enters its loop over them.  The handler runs in the GUI thread, which
\* runs one handler at a time
StartJobs(rows) ==
    /\ job_loop = NoJobLoop
    /\ Len(threads) + Len(rows) <= MaxThreads
    /\ job_loop' = [devices |-> rows, grading_thread |-> 0]
    /\ UNCHANGED <<control_list, threads, signals, native_finished>>
    /\ GuiUnchanged

process_all_devices == StartJobs(TableRows)

process_selected_devices == \E rows \in Selections : StartJobs(rows)

\* one turn of the loop as far as grading_thread.start(): whether or not the
\* path has an entry in the control list, a new Grading thread is created
\* for the row, connected and started
StartGradingThread ==
    /\ job_loop.devices # <<>>
    /\ job_loop.grading_thread = 0
    /\ threads' = Append(threads, Grading(Head(job_loop.devices)))
    /\ job_loop' = [job_loop EXCEPT !.grading_thread = Len(threads) + 1]
    /\ UNCHANGED <<control_list, signals, native_finished>>
    /\ GuiUnchanged

\* the rest of the turn: control_list[dut] is set to an entry holding the
\* thread just started, and the loop goes on with the next row
AddToControlList ==
    /\ job_loop.grading_thread # 0
    /\ control_list' = [control_list EXCEPT ![Head(job_loop.devices)] = job_loop.grading_thread]
    /\ job_loop' = [devices |-> Tail(job_loop.devices), grading_thread |-> 0]
    /\ UNCHANGED <<threads, signals, native_finished>>
    /\ GuiUnchanged

\* Grading.get_device and create_report: the probe gives a Device of some
\* protocol, or raises CommandException and self.device stays the table's dict
get_device(t) ==
    /\ threads[t].pc = "started"
    /\ \E probe \in GuiProtocols \cup {"CommandException"} :
        threads' = [threads EXCEPT ![t].pc = "execute_grading",
                                   ![t].protocol = IF probe = "CommandException"
                                                   THEN "dict" ELSE probe]
    /\ ThreadStep

\* Grading.execute_grading up to the first check of the schedule: the
\* table's dict has no refresh(), device.refresh() runs smartctl, and there
\* is a grading schedule for ATA and SCSI only
execute_grading(t) ==
    /\ threads[t].pc = "execute_grading"
    /\ \E refresh \in CommandOutcomes :
        IF threads[t].protocol \notin GuiProtocols
        THEN Throws(t, "AttributeError")
        ELSE IF refresh # "ok"
        THEN Throws(t, refresh)
        ELSE IF threads[t].protocol \in {"ATA", "SCSI"}
        THEN threads' = [threads EXCEPT ![t].pc = "check_smart_status"]
        ELSE Throws(t, "AttributeError")
    /\ ThreadStep

\* the check runs device.refresh() and then reads the status
check_smart_status(t) ==
    /\ threads[t].pc = "check_smart_status"
    /\ \E refresh \in CommandOutcomes, smart_status \in BOOLEAN :
        IF refresh # "ok"
        THEN Throws(t, refresh)
        ELSE IF ~smart_status
        THEN CheckFailed(t, "smart_status", "SMARTFail")
        ELSE CheckPassed(t, "smart_status", "check_smart_historic_self_test_logs")
    /\ ThreadStep

\* the check as far as its call of device.refresh(): with "No Self Tests
\* Logged" it returns before it creates the report's smart_self_test_logs
\* entry; otherwise it creates the entry and waits for smartctl, with
\* nothing else of the run set
check_smart_historic_self_test_logs(t) ==
    /\ threads[t].pc = "check_smart_historic_self_test_logs"
    /\ ~threads[t].logs_reported
    /\ \E smart_self_tests \in SelfTestLogs :
        IF smart_self_tests = "No Self Tests Logged"
        THEN CheckPassed(t, "smart_self_test_logs", "check_smart_short_self_test_status")
        ELSE threads' = [threads EXCEPT ![t].logs_reported = TRUE]
    /\ ThreadStep

\* the rest of the check: device.refresh() has ended, the logs it read are
\* stored in the entry and examined.  A log that now says "No Self Tests
\* Logged" holds no failed self-test
check_smart_historic_self_test_logs_refreshed(t) ==
    /\ threads[t].pc = "check_smart_historic_self_test_logs"
    /\ threads[t].logs_reported
    /\ \E refresh \in CommandOutcomes, smart_self_tests \in SelfTestLogs :
        IF refresh # "ok"
        THEN Throws(t, refresh)
        ELSE IF smart_self_tests = "failed"
        THEN CheckFailed(t, "smart_self_test_logs", "SMARTHistoricSelfTestFail")
        ELSE CheckPassed(t, "smart_self_test_logs", "check_smart_short_self_test_status")
    /\ ThreadStep

\* a passed self-test stores the logs in the report's smart_self_test_logs
\* entry: KeyError where the historic check did not create it
check_smart_short_self_test_status(t) ==
    /\ threads[t].pc = "check_smart_short_self_test_status"
    /\ \E return_code \in {0, 1} :
        IF return_code # 0
        THEN CheckFailed(t, "smart_self_test", "SMARTSelfTestFail")
        ELSE IF ~threads[t].logs_reported
        THEN Throws(t, "KeyError")
        ELSE CheckPassed(t, "smart_self_test", "check_smart_vendor_self_test_status")
    /\ ThreadStep

check_smart_vendor_self_test_status(t) ==
    /\ threads[t].pc = "check_smart_vendor_self_test_status"
    /\ \E return_code \in {0, 1} :
        IF return_code # 0
        THEN CheckFailed(t, "smart_vendor_self_test", "SMARTSelfTestFail")
        ELSE CheckPassed(t, "smart_vendor_self_test", "check_reallocated_sectors")
    /\ ThreadStep

\* the ATA schedule goes on with the pending sectors, the SCSI schedule ends
AfterReallocated(t) ==
    IF threads[t].protocol = "ATA" THEN "check_pending_sectors" ELSE "finalize"

\* where the count is reported the check runs device.refresh()
check_reallocated_sectors(t) ==
    /\ threads[t].pc = "check_reallocated_sectors"
    /\ \E refresh \in CommandOutcomes, reallocated_sectors \in SectorCounts :
        IF reallocated_sectors # Absent /\ refresh # "ok"
        THEN Throws(t, refresh)
        ELSE IF reallocated_sectors # Absent
           /\ reallocated_sectors.n > CDI_MAXIMUM_REALLOCATED_SECTORS
        THEN CheckFailed(t, "reallocated_sectors", "ReallocatedSectorsExceedsThreshold")
        ELSE CheckPassed(t, "reallocated_sectors", AfterReallocated(t))
    /\ ThreadStep

check_pending_sectorsNoRaise(t) ==
    /\ threads[t].pc = "check_pending_sectors"
    /\ \E refresh \in CommandOutcomes, pending_sectors \in SectorCounts :
        IF pending_sectors # Absent /\ refresh # "ok"
        THEN Throws(t, refresh)
        ELSE IF pending_sectors # Absent /\ pending_sectors.n > CDI_MAXIMUM_PENDING_SECTORS
        THEN threads' = [threads EXCEPT ![t].pc = "check_start_stop_count",
                                        ![t].grade = "F",
                                        ![t].is_certified_for_reuse = FALSE,
                                        ![t].result = "Fail",
                                        ![t].failed = @ \cup {"pending_sectors"}]
        ELSE CheckPassed(t, "pending_sectors", "check_start_stop_count")
    /\ ThreadStep

check_pending_sectors(t) ==
    /\ threads[t].pc = "check_pending_sectors"
    /\ \E refresh \in CommandOutcomes, pending_sectors \in SectorCounts :
        IF pending_sectors # Absent /\ refresh # "ok"
        THEN Throws(t, refresh)
        ELSE IF pending_sectors # Absent /\ pending_sectors.n > CDI_MAXIMUM_PENDING_SECTORS
        THEN CheckFailed(t, "pending_sectors", "PendingSectorsExceedsThreshold")
        ELSE CheckPassed(t, "pending_sectors", "check_start_stop_count")
    /\ ThreadStep

\* the check runs device.refresh(); a start/stop count over 10 is printed
\* and nothing else
check_start_stop_count(t) ==
    /\ threads[t].pc = "check_start_stop_count"
    /\ \E refresh \in CommandOutcomes :
        IF refresh # "ok"
        THEN Throws(t, refresh)
        ELSE CheckPassed(t, "start_stop_count", "finalize")
    /\ ThreadStep

\* FINALIZE GRADING of run_ata_grading / run_scsi_grading
finalize_grading(t) ==
    /\ threads[t].pc = "finalize"
    /\ threads' = [threads EXCEPT ![t].pc = "create_test_report",
                                  ![t].grade = "A",
                                  ![t].is_certified_for_reuse = TRUE,
                                  ![t].result = "Pass"]
    /\ ThreadStep

\* self.finished.emit(): one more emission, queued for the GUI thread
Emit(t) ==
    /\ threads' = [threads EXCEPT ![t].pc = "returned", ![t].emitted = @ + 1]
    /\ signals' = Append(signals, t)

\* the rest of the try body of run().  create_test_report opens a file of
\* the directory ./reports for writing, which the program does not create:
\* FileNotFoundError where it is missing.  execute_standby_device runs
\* hdparm for an ATA device and sg_start for a SCSI device.  Then
\* self.finished.emit() and return True
run_returns(t) ==
    /\ threads[t].pc = "create_test_report"
    /\ \E reports_dir \in BOOLEAN, standby \in CommandOutcomes :
        IF ~reports_dir
        THEN Throws(t, "FileNotFoundError") /\ UNCHANGED signals
        ELSE IF standby # "ok"
        THEN Throws(t, standby) /\ UNCHANGED signals
        ELSE Emit(t)
    /\ UNCHANGED <<control_list, native_finished, job_loop>>
    /\ GuiUnchanged

\* the except clauses of run(), for the exception that left the try body of
\* thread th.  Cancelled is handled by the first clause: print_exception
\* reads device.model_number (AttributeError while self.device is still the
\* table's dict), create_test_report reads report['status']['result']
\* (KeyError before a check or FINALIZE has set it) and opens its file
\* (FileNotFoundError without the directory ./reports), then finished is
\* emitted and run() returns.  For any other exception the second clause is
\* evaluated, and catching the union DeviceLost | SMARTFail | ... raises
\* TypeError.  An exception raised in the clauses leaves run(): it dies.
ExceptClause(th, reports_dir) ==
    IF th.exception = "Cancelled"
    THEN IF th.protocol \notin GuiProtocols
         THEN [pc |-> "died", exception |-> "AttributeError", emits |-> 0]
         ELSE IF th.result = ""
         THEN [pc |-> "died", exception |-> "KeyError", emits |-> 0]
         ELSE IF ~reports_dir
         THEN [pc |-> "died", exception |-> "FileNotFoundError", emits |-> 0]
         ELSE [pc |-> "returned", exception |-> "none", emits |-> 1]
    ELSE [pc |-> "died", exception |-> "TypeError", emits |-> 0]

run_except(t) ==
    /\ threads[t].pc = "raised"
    /\ \E reports_dir \in BOOLEAN :
        LET clause == ExceptClause(threads[t], reports_dir) IN
        /\ threads' = [threads EXCEPT ![t].pc = clause.pc,
                                      ![t].exception = clause.exception,
                                      ![t].emitted = @ + clause.emits]
        /\ signals' = IF clause.emits = 1 THEN Append(signals, t) ELSE signals
    /\ UNCHANGED <<control_list, native_finished, job_loop>>
    /\ GuiUnchanged

\* the thread ends after run() returned or died; where the finished signal of
\* the class is QThread's own, Qt emits it once more here
thread_ends(t) ==
    /\ threads[t].pc \in {"returned", "died"}
    /\ IF native_finished
       THEN /\ threads' = [threads EXCEPT ![t].pc = "ended", ![t].emitted = @ + 1]
            /\ signals' = Append(signals, t)
       ELSE /\ threads' = [threads EXCEPT ![t].pc = "ended"]
            /\ UNCHANGED signals
    /\ UNCHANGED <<control_list, native_finished, job_loop>>
    /\ GuiUnchanged

\* CDIGradingTool.finished, the slot: every entry whose thread is the sender
\* is deleted from the control list.  The signal is emitted in the Grading
\* thread and queued for the GUI thread, which delivers it once the handler
\* it is running has returned
finished ==
    /\ signals # <<>>
    /\ job_loop = NoJobLoop
    /\ control_list' = [p \in TablePaths |->
                          IF control_list[p] = Head(signals) THEN 0 ELSE control_list[p]]
    /\ signals' = Tail(signals)
    /\ UNCHANGED <<threads, native_finished, job_loop>>
    /\ GuiUnchanged

NextGui ==
    \/ process_all_devices
    \/ process_selected_devices
    \/ StartGradingThread
    \/ AddToControlList
    \/ \E t \in ThreadIds :
        \/ get_device(t)
        \/ execute_grading(t)
        \/ check_smart_status(t)
        \/ check_smart_historic_self_test_logs(t)
        \/ check_smart_historic_self_test_logs_refreshed(t)
        \/ check_smart_short_self_test_status(t)
        \/ check_smart_vendor_self_test_status(t)
        \/ check_reallocated_sectors(t)
        \/ check_pending_sectors(t)
        \/ check_start_stop_count(t)
        \/ finalize_grading(t)
        \/ run_returns(t)
        \/ run_except(t)
        \/ thread_ends(t)
    \/ finished

InitGui ==
    /\ GradeIdle
    /\ BatchIdle
    /\ ScanIdle
    /\ DevicesIdle
    /\ control_list = [p \in TablePaths |-> 0]
    /\ threads = <<>>
    /\ signals = <<>>
    /\ native_finished \in BOOLEAN
    /\ job_loop = NoJobLoop

SpecGui == InitGui /\ [][NextGui]_vars

\* C26: every run of a Grading thread emits the finished signal exactly once,
\* whatever its outcome: a thread that has ended has emitted it once, and so
\* the entry of its device has left the control list
C26_FinishedExactlyOnce ==
    \A t \in ThreadIds : threads[t].pc = "ended" => threads[t].emitted = 1

\* one run of one Grading thread, from the moment process_selected_devices
\* has started it for one row of the table
NextRun ==
    \/ \E t \in ThreadIds :
        \/ get_device(t)
        \/ execute_grading(t)
        \/ check_smart_status(t)
        \/ check_smart_historic_self_test_logs(t)
        \/ check_smart_historic_self_test_logs_refreshed(t)
        \/ check_smart_short_self_test_status(t)
        \/ check_smart_vendor_self_test_status(t)
        \/ check_reallocated_sectors(t)
        \/ check_pending_sectors(t)
        \/ check_start_stop_count(t)
        \/ finalize_grading(t)
        \/ run_returns(t)
        \/ run_except(t)
        \/ thread_ends(t)
    \/ finished

InitRun ==
    /\ GradeIdle
    /\ BatchIdle
    /\ ScanIdle
    /\ DevicesIdle
    /\ \E dut \in TablePaths :
        /\ threads = <<Grading(dut)>>
        /\ control_list = [p \in TablePaths |-> IF p = dut THEN 1 ELSE 0]
    /\ signals = <<>>
    /\ native_finished \in BOOLEAN
    /\ job_loop = NoJobLoop

SpecRun == InitRun /\ [][NextRun]_vars

\* the checks of the schedule of a protocol, as run_ata_grading and
\* run_scsi_grading call them
ScheduleOf(protocol) ==
    IF protocol = "ATA"
    THEN {"smart_status", "smart_self_test_logs", "smart_self_test",
          "smart_vendor_self_test", "reallocated_sectors", "pending_sectors",
          "start_stop_count"}
    ELSE {"smart_status", "smart_self_test_logs", "smart_self_test",
          "smart_vendor_self_test", "reallocated_sectors"}

\* a run that is certified, graded "A" or reported "Pass" is all three, no
\* check of it failed and every check of its schedule completed
CertifiedOnlyAfterAllChecks ==
    \A t \in ThreadIds :
        (threads[t].is_certified_for_reuse \/ threads[t].grade = "A"
            \/ threads[t].result = "Pass")
        => /\ threads[t].is_certified_for_reuse
           /\ threads[t].grade = "A"
           /\ threads[t].result = "Pass"
           /\ threads[t].failed = {}
           /\ threads[t].completed = ScheduleOf(threads[t].protocol)

\* once a check has set grade "F" no step sets "A" or certifies
FailedStaysFailed ==
    \A t \in ThreadIds :
        (threads[t].grade = "F" \/ threads[t].failed # {})
        => /\ threads'[t].grade = "F"
           /\ ~threads'[t].is_certified_for_reuse
           /\ threads'[t].result = "Fail"

\* C27: a Grading run certifies the device (is_certified_for_reuse, grade "A",
\* report status "Pass") only if every check of its schedule completed without
\* failing, and once a check has set grade "F" no later step of the run sets
\* the grade to "A" or is_certified_for_reuse to True
C27_CertifiedOnlyIfAllPassed ==
    [](CertifiedOnlyAfterAllChecks) /\ [][FailedStaysFailed]_vars

\* a run whose pending sectors check set grade "F" went on to its end
C27_Witness ==
    \E t \in ThreadIds :
        /\ threads[t].pc = "ended"
        /\ threads[t].grade = "F"
        /\ threads[t].failed = {"pending_sectors"}
        /\ ~threads[t].is_certified_for_reuse

\* the Grading threads of a device path that are running
RunningFor(p) == {t \in ThreadIds : threads[t].dut = p /\ IsRunning(t)}

\* C28: at most one Grading thread per device path is running at any time, and
\* the control list entry of a path refers to the running thread of that path
C28_OneThreadPerPath ==
    \A p \in TablePaths :
        /\ Cardinality(RunningFor(p)) <= 1
        /\ \A t \in RunningFor(p) : control_list[p] # 0 => control_list[p] = t

-----------------------------------------------------------------------------
(* SpecRefresh: one Device of classes/devices.py, constructed from a        *)
(* telemetry that does not change, then refreshed.  `device` holds the      *)
(* telemetry and what sg_turs answers, `result` the Device object.          *)

MaxRefresh == 2

RefreshSmart == {"passed", "failed", "missing"}

\* the reallocated sector count of the telemetry: under and at the maximum
RefreshCounts == {9, 10}

\* the health JSON of a protocol with that SMART status and that count
RefreshHealth(protocol, smart, count) ==
    LET h == HealthJson(smart = "passed",
                        IF protocol = "ATA"
                        THEN <<Attr(5, "Reallocated_Sector_Ct", Num(100), Num(count)),
                               Attr(197, "Current_Pending_Sector", Num(100), Num(3))>>
                        ELSE <<>>,
                        IF protocol = "SCSI" THEN Num(count) ELSE Absent,
                        Absent)
    IN  IF smart = "missing" THEN WithoutSmartStatus(h) ELSE h

\* telemetry on which the protocol class raises: an ATA attribute 4, 12 or
\* 193 without its raw value, SCSI uncorrected errors that are no number
RefreshFaulty ==
    {HealthJson(TRUE, <<Attr(id, "", Num(100), Absent)>>, Absent, Absent) : id \in {4, 12, 193}}
    \cup {HealthJson(TRUE, <<>>, Num(0), v) : v \in {Bad, Null}}

RefreshInputs ==
    {[entry |-> [ScanEntry("/dev/sda", protocol, FALSE, FALSE, "ok") EXCEPT
                    !.health = RefreshHealth(protocol, smart, count)],
      test_unit_ready |-> tur] :
        protocol \in {"ATA", "NVMe", "SCSI"}, smart \in RefreshSmart,
        count \in RefreshCounts, tur \in {"Ready", "Not Ready"}}
    \cup {[entry |-> [ScanEntry("/dev/sda", protocol, FALSE, FALSE, "ok") EXCEPT !.health = h],
           test_unit_ready |-> "Ready"] :
            protocol \in {"ATA", "SCSI"}, h \in RefreshFaulty}

\* power_on_hours as the protocol class sets it: ATA and NVMe read the hours
\* only while device.state is "Ready" and set the string "0" otherwise
DevicePowerOnHours(protocol, state, h) ==
    IF protocol = "SCSI" \/ state = "Ready" THEN Num(h.hours) ELSE Str("0")

\* Device.initialize on a Device whose state is `state`: the protocol class
\* grades the telemetry anew, and sets state only where a check fails
InitializeOn(state, entry, refreshes) ==
    LET d == initialize(entry)
    IN  IF d.kind = "raise" THEN [status |-> "raised", exception |-> d.dut]
        ELSE [status |-> "device",
              state |-> IF d.state = "Fail" THEN "Fail" ELSE state,
              power_on_hours |-> DevicePowerOnHours(entry.protocol, state, entry.health),
              cdi_grade |-> d.cdi_grade,
              cdi_eligible |-> d.cdi_eligible,
              cdi_certified |-> d.cdi_certified,
              reallocated_sectors |-> d.reallocated_sectors,
              pending_reallocated_sectors |->
                  IF entry.protocol = "ATA"
                  THEN get_smart_attribute_by_id(TRUE, entry.health.table, 197)
                  ELSE Absent,
              refreshes |-> refreshes]

\* Device.__init__: state is the answer of test_unit_ready, then initialize
NewDevice(input) == InitializeOn(input.test_unit_ready, input.entry, 0)

InitRefresh ==
    /\ GuiIdle
    /\ BatchIdle
    /\ ScanIdle
    /\ DevicesIdle
    /\ device \in RefreshInputs
    /\ result = NoResult

DeviceInit ==
    /\ result = NoResult
    /\ result' = NewDevice(device)
    /\ UNCHANGED <<device, devices, graded, bpc, candidates, scan_env, spc, si>>
    /\ UNCHANGED devicesVars
    /\ UNCHANGED guiVars

\* Device.refresh: outputs and flags are reset, then initialize
refresh ==
    /\ result.status = "device"
    /\ result.refreshes < MaxRefresh
    /\ result' = InitializeOn(result.state, device.entry, result.refreshes + 1)
    /\ UNCHANGED <<device, devices, graded, bpc, candidates, scan_env, spc, si>>
    /\ UNCHANGED devicesVars
    /\ UNCHANGED guiVars

NextRefresh == DeviceInit \/ refresh

SpecRefresh == InitRefresh /\ [][NextRefresh]_vars

\* the derived fields the refresh is compared on
Derived(d) ==
    [state |-> d.state, power_on_hours |-> d.power_on_hours, cdi_grade |-> d.cdi_grade,
     cdi_eligible |-> d.cdi_eligible, cdi_certified |-> d.cdi_certified,
     reallocated_sectors |-> d.reallocated_sectors,
     pending_reallocated_sectors |-> d.pending_reallocated_sectors]

\* C29: with unchanged telemetry, after any number of refresh() calls the
\* derived fields of the Device (state, power_on_hours, cdi_grade,
\* cdi_eligible, cdi_certified, reallocated and pending counters) equal those
\* computed when the Device was constructed from the same telemetry
C29_RefreshEqualsFreshInit ==
    result.status = "device" => Derived(result) = Derived(NewDevice(device))

\* C30: after the protocol initialization of a Device, cdi_certified is True
\* only if the telemetry reported smart_status.passed = true; a device whose
\* SMART status is missing from the telemetry is never certified
C30_CertifiedOnlyIfSmartPassed ==
    (result.status = "device" /\ result.cdi_certified)
    => device.entry.health.smart_reported /\ device.entry.health.smart_passed

=============================================================================
